---- MODULE Spec2Model ----
(***************************************************************************)
(* Model of the LLM request/response layer of english_assistant_agent:     *)
(* the completion client BaseAgent._call_gemini_api (agents/studyplan.py), *)
(* its line decoder, and the agents that accumulate its chunks             *)
(* (GrammarAgent.correct_text, VocabularyAgent.run).                       *)
(*                                                                         *)
(* Strings are sequences of characters.  A JSON document that stands on    *)
(* one wire line or in one response body is abbreviated to one character   *)
(* (a name in DocNames); Doc gives its decoded value.  The fixed messages  *)
(* of the code are one-character strings whose character is the message    *)
(* (written without diacritics).                                           *)
(***************************************************************************)
EXTENDS Integers, Sequences, FiniteSets, TLC

\* Bound on the number of lines the backend sends on one streamed response.
MaxLines == 3

(***************************************************************************)
(* Python string helpers                                                   *)
(***************************************************************************)
WS == {" ", "\n"}

\* the backtick character (the tools accept no backtick inside a string)
Backtick == "BACKTICK"

\* F(x), with x evaluated once and not again at every place F uses it
Once(F(_), x) == CHOOSE r \in { F(v) : v \in {x} } : TRUE

\* str.strip(): what lies between the first and the last character that is
\* not white space
Strip(s) ==
  Once(LAMBDA v :
         LET inked == { i \in 1..Len(v) : v[i] \notin WS } IN
         IF inked = {} THEN <<>>
         ELSE SubSeq(v, CHOOSE i \in inked : \A j \in inked : i <= j,
                        CHOOSE i \in inked : \A j \in inked : i >= j),
       s)

\* str.startswith(p)
StartsWith(s, p) == Len(s) >= Len(p) /\ SubSeq(s, 1, Len(p)) = p

\* str.endswith(p)
EndsWith(s, p) ==
  Len(s) >= Len(p) /\ SubSeq(s, Len(s) - Len(p) + 1, Len(s)) = p

\* s[n:]
DropFirst(s, n) == SubSeq(s, n + 1, Len(s))

\* s[:-n]
DropLast(s, n) == SubSeq(s, 1, Len(s) - n)

\* "".join(parts)
RECURSIVE JoinFrom(_, _)
JoinFrom(parts, i) ==
  IF i > Len(parts) THEN <<>> ELSE parts[i] \o JoinFrom(parts, i + 1)

Join(parts) == Once(LAMBDA v : JoinFrom(v, 1), parts)

(***************************************************************************)
(* The fixed messages of the completion client                             *)
(***************************************************************************)
MsgNoKey == <<"Loi: API key chua duoc cau hinh.">>
MsgSchema == <<"Loi: Cau truc response khong mong doi tu Gemini.">>
MsgRequestError == <<"Co loi xay ra khi goi API.">>
MsgHTTPError == <<"Co loi HTTP <status> xay ra khi goi API.">>
MsgUnknown == <<"Da co loi khong xac dinh khi goi API.">>

ClientMessages == {MsgNoKey, MsgSchema, MsgRequestError, MsgHTTPError, MsgUnknown}

(***************************************************************************)
(* JSON values, tagged by their Python type                                *)
(***************************************************************************)
JNull == [t |-> "null"]
JNum(n) == [t |-> "num", n |-> n]
JBool(b) == [t |-> "bool", b |-> b]
JStr(s) == [t |-> "str", s |-> s]
JList(l) == [t |-> "list", l |-> l]
JDict(d) == [t |-> "dict", d |-> d]

\* Python truthiness: bool(v)
Truthy(v) ==
  CASE v.t = "null" -> FALSE
    [] v.t = "bool" -> v.b
    [] v.t = "num" -> v.n # 0
    [] v.t = "str" -> v.s # <<>>
    [] v.t = "list" -> v.l # <<>>
    [] v.t = "dict" -> DOMAIN v.d # {}

\* dict.get(key) on a value known to be a dict
Get(v, key) == IF key \in DOMAIN v.d THEN v.d[key] ELSE JNull

\* does string s contain the substring p (Python's `p in s` on str)
Contains(s, p) ==
  \E i \in 1..(Len(s) + 1) :
    i + Len(p) - 1 <= Len(s) /\ SubSeq(s, i, i + Len(p) - 1) = p

\* the response texts the backend may put in one envelope
ChunkTexts == { <<>>, <<"a">>, <<"{", "k">>, <<"}">> }

\* the envelope {"candidates":[{"content":{"parts":[part]}}]}
Envelope(part) ==
  JDict([candidates |->
    JList(<< JDict([content |-> JDict([parts |-> JList(<<part>>)])]) >>)])

\* the envelope whose first part is {"text": txt}
TextEnvelope(txt) == Envelope(JDict([text |-> JStr(txt)]))

(***************************************************************************)
(* The JSON documents of the wire, one character each.                     *)
(***************************************************************************)
GoodDocs == {"J0", "Ja", "Jopen", "Jclose"}
PathlessDocs ==
  {"{}", "[]", "5", "{candidates:[]}", "{candidates:{}}", "{candidates:[5]}",
   "{candidates:[{}]}", "{content:5}", "{content:{}}", "{parts:[]}",
   "{parts:{x}}", "{parts:[{}]}", "{parts:[5]}", "{parts:['text']}"}
DocNames == GoodDocs \cup PathlessDocs

Doc(name) ==
  CASE name = "J0" -> TextEnvelope(<<>>)
    [] name = "Ja" -> TextEnvelope(<<"a">>)
    [] name = "Jopen" -> TextEnvelope(<<"{", "k">>)
    [] name = "Jclose" -> TextEnvelope(<<"}">>)
    [] name = "{}" -> JDict(<<>>)
    [] name = "[]" -> JList(<<>>)
    [] name = "5" -> JNum(5)
    [] name = "{candidates:[]}" -> JDict([candidates |-> JList(<<>>)])
    [] name = "{candidates:{}}" -> JDict([candidates |-> JDict([x |-> JNull])])
    [] name = "{candidates:[5]}" -> JDict([candidates |-> JList(<<JNum(5)>>)])
    [] name = "{candidates:[{}]}" -> JDict([candidates |-> JList(<<JDict(<<>>)>>)])
    [] name = "{content:5}" ->
         JDict([candidates |-> JList(<<JDict([content |-> JNum(5)])>>)])
    [] name = "{content:{}}" ->
         JDict([candidates |-> JList(<<JDict([content |-> JDict([x |-> JNull])])>>)])
    [] name = "{parts:[]}" ->
         JDict([candidates |->
           JList(<<JDict([content |-> JDict([parts |-> JList(<<>>)])])>>)])
    [] name = "{parts:{x}}" ->
         JDict([candidates |->
           JList(<<JDict([content |-> JDict([parts |-> JDict([x |-> JNull])])])>>)])
    [] name = "{parts:[{}]}" -> Envelope(JDict(<<>>))
    [] name = "{parts:[5]}" -> Envelope(JNum(5))
    [] name = "{parts:['text']}" -> Envelope(JStr(<<"t", "e", "x", "t">>))

\* JSON texts that are not objects of the wire: null, true, two strings and a
\* list of strings, one character each
KeysText == <<"original_text", " ", "corrected_text", " ", "corrections">>
ScalarDocs == {"null", "true", "'s'", "'keys'", "['keys']"}

Scalar(name) ==
  CASE name = "null" -> JNull
    [] name = "true" -> JBool(TRUE)
    [] name = "'s'" -> JStr(<<"s">>)
    [] name = "'keys'" -> JStr(KeysText)
    [] name = "['keys']" ->
         JList(<<JStr(<<"original_text">>), JStr(<<"corrected_text">>),
                 JStr(<<"corrections">>)>>)

\* json.loads(s): the decoded value, or "JSONDecodeError".  Whitespace around
\* the one document is accepted, anything else is not a JSON text.
\* The texts <<"{", "}">> and <<"{", "k", "}">> are the objects {} and
\* {"original_text": .., "corrected_text": .., "corrections": []}.
JsonLoads(s) ==
  Once(LAMBDA body :
         IF Len(body) = 1 /\ body[1] \in DocNames
           THEN [ok |-> TRUE, value |-> Doc(body[1])]
         ELSE IF Len(body) = 1 /\ body[1] \in ScalarDocs
           THEN [ok |-> TRUE, value |-> Scalar(body[1])]
         ELSE IF body = <<"{", "}">>
           THEN [ok |-> TRUE, value |-> JDict(<<>>)]
         ELSE IF body = <<"{", "k", "}">>
           THEN [ok |-> TRUE,
                 value |-> JDict([original_text |-> JStr(<<"a">>),
                                  corrected_text |-> JStr(<<"a">>),
                                  corrections |-> JList(<<>>)])]
         ELSE [ok |-> FALSE, value |-> JNull],
       Strip(s))

(***************************************************************************)
(* The envelope test of _call_gemini_api, conjunct by conjunct.  Each      *)
(* conjunct is "true", "false" or "raise" (AttributeError / TypeError /    *)
(* KeyError of the expression); `and` stops at the first that is not true. *)
(***************************************************************************)
\* data.get("candidates")
HasCandidates(d) ==
  IF d.t # "dict" THEN "raise"
  ELSE IF Truthy(Get(d, "candidates")) THEN "true" ELSE "false"

\* isinstance(data["candidates"], list) and len(data["candidates"]) > 0
CandidatesIsList(d) ==
  LET c == Get(d, "candidates") IN
  IF c.t = "list" /\ Len(c.l) > 0 THEN "true" ELSE "false"

\* data["candidates"][0].get("content")
HasContent(d) ==
  LET c0 == Get(d, "candidates").l[1] IN
  IF c0.t # "dict" THEN "raise"
  ELSE IF Truthy(Get(c0, "content")) THEN "true" ELSE "false"

\* data["candidates"][0]["content"].get("parts")
HasParts(d) ==
  LET content == Get(Get(d, "candidates").l[1], "content") IN
  IF content.t # "dict" THEN "raise"
  ELSE IF Truthy(Get(content, "parts")) THEN "true" ELSE "false"

\* isinstance(parts, list) and len(parts) > 0
PartsIsList(d) ==
  LET parts == Get(Get(Get(d, "candidates").l[1], "content"), "parts") IN
  IF parts.t = "list" /\ Len(parts.l) > 0 THEN "true" ELSE "false"

\* "text" in parts[0]
TextInPart(d) ==
  LET p0 == Get(Get(Get(d, "candidates").l[1], "content"), "parts").l[1] IN
  CASE p0.t = "dict" -> IF "text" \in DOMAIN p0.d THEN "true" ELSE "false"
    [] p0.t = "str" -> IF Contains(p0.s, <<"t", "e", "x", "t">>) THEN "true" ELSE "false"
    [] p0.t = "list" -> "false"
    [] OTHER -> "raise"

\* the whole `not (... and ... and ...)` test: "true" when the path is there
EnvelopeTest(d) ==
  IF HasCandidates(d) # "true" THEN HasCandidates(d)
  ELSE IF CandidatesIsList(d) # "true" THEN CandidatesIsList(d)
  ELSE IF HasContent(d) # "true" THEN HasContent(d)
  ELSE IF HasParts(d) # "true" THEN HasParts(d)
  ELSE IF PartsIsList(d) # "true" THEN PartsIsList(d)
  ELSE TextInPart(d)

\* data["candidates"][0]["content"]["parts"][0]["text"]: the text, or a
\* TypeError when parts[0] is not a dict
ExtractText(d) ==
  LET p0 == Get(Get(Get(d, "candidates").l[1], "content"), "parts").l[1] IN
  IF p0.t = "dict" THEN [ok |-> TRUE, text |-> p0.d["text"].s]
  ELSE [ok |-> FALSE, text |-> <<>>]

(***************************************************************************)
(* The line decoder of the streaming branch                                *)
(***************************************************************************)
DataPrefix == <<"d", "a", "t", "a", ":", " ">>

Skip == [yield |-> FALSE, text |-> <<>>]

\* Faulty variant of DecodeLine: the "data: " prefix is not removed.
DecodeLine_NoPrefix(line) ==
  IF Strip(line) = <<>> THEN Skip
  ELSE
    LET stripped == Strip(line)
        clean_line == IF EndsWith(stripped, <<",">>)
                        THEN DropLast(stripped, 1) ELSE stripped
        chunk_data == JsonLoads(clean_line)
    IN
    IF clean_line = <<>> THEN Skip
    ELSE IF ~chunk_data.ok THEN Skip
    ELSE IF EnvelopeTest(chunk_data.value) # "true" THEN Skip
    ELSE IF ~ExtractText(chunk_data.value).ok THEN Skip
    ELSE [yield |-> TRUE, text |-> ExtractText(chunk_data.value).text]

\* The body of `async for line in res.aiter_lines()`: what one line makes the
\* generator do, [yield |-> TRUE, text |-> t] or Skip.
DecodeLine(line) ==
  IF Strip(line) = <<>> THEN Skip
  ELSE
    LET unprefixed == IF StartsWith(line, DataPrefix)
                        THEN DropFirst(line, Len(DataPrefix)) ELSE line
        stripped == Strip(unprefixed)
        clean_line == IF EndsWith(stripped, <<",">>)
                        THEN DropLast(stripped, 1) ELSE stripped
        chunk_data == JsonLoads(clean_line)
    IN
    IF clean_line = <<>> THEN Skip                        \* continue
    ELSE IF ~chunk_data.ok THEN Skip                      \* json.JSONDecodeError
    ELSE IF EnvelopeTest(chunk_data.value) = "raise" THEN Skip   \* except Exception
    ELSE IF EnvelopeTest(chunk_data.value) = "false" THEN Skip   \* continue
    ELSE IF ~ExtractText(chunk_data.value).ok THEN Skip   \* except Exception
    ELSE [yield |-> TRUE, text |-> ExtractText(chunk_data.value).text]

\* the wrappings the transport may put around what a line carries
LinePrefixes == { <<>>, DataPrefix, <<" ">>, <<"d", "a", "t", "a", ":">>,
                  <<" ">> \o DataPrefix }
LineSuffixes == { <<>>, <<",">>, <<",", ",">>, <<" ">>, <<" ", ",">>, <<",", " ">> }
LineBodies == { <<>>, <<"{bad">> } \cup { <<d>> : d \in DocNames }

\* every line of the decoder's input space
AllLines == { p \o b \o x : p \in LinePrefixes, b \in LineBodies, x \in LineSuffixes }

\* the lines the backend sends in the request/response machine
StreamLines ==
  { <<>>, <<" ">>, <<"{bad">>, <<"{}">>, <<"{parts:['text']}">>,
    <<"Ja">>, DataPrefix \o <<"Jopen">>, <<"Jclose", ",">>,
    DataPrefix \o <<"J0", ",">>, <<"Ja", ",", ",">>, <<" ", "Jclose", " ">> }

\* the bodies of a non-streaming 2xx response
Bodies == { <<"not json">> } \cup { <<d>> : d \in DocNames }

(***************************************************************************)
(* State                                                                   *)
(***************************************************************************)
VARIABLES
  API_KEY,        \* TRUE iff the credential GOOGLE_API_KEY is set
  streaming,      \* self.streaming
  agent,          \* the operation that consumes the chunks
  pc,             \* position of the generator _call_gemini_api
  pending,        \* <<chunk>> while the generator is suspended at a yield
  requests,       \* number of HTTP requests issued to the backend
  silent,         \* the backend has stopped responding
  outcome,        \* what the transport did to this call
  received,       \* the lines read from the streamed response so far
                  \* (non-streaming: the one response body)
  yielded,        \* every element the generator has yielded so far
  response_parts, \* GrammarAgent.correct_text: the chunks appended so far
  full_response,  \* VocabularyAgent.run: the text accumulated so far
  apc,            \* position of the agent's operation
  parsed,         \* <<text>> once json.loads was called on text
  result,         \* the value the agent's operation returned
  \* SpeakingPracticeAgent (speaking_agent.py)
  whisper_model,        \* TRUE iff the Whisper model was loaded
  initial_greeting,     \* self.initial_greeting; <<>> when there is none
  conversation_history, \* self.conversation_history
  spc,                  \* position of run: "idle" or "asking" (inside ask)
  run_input,            \* what the current or last call of run was given
  before,               \* the transcript and the number of backend calls
                        \* when the current or last run was called, and
                        \* the user's text of that run (user_input_text)
  prompt_lines,         \* the transcript put in the last prompt
  asks,                 \* number of backend calls the agent has made
  run_returned,         \* the text the last run returned
  runs,                 \* number of calls of run
  \* the endpoint /grammar/correct (main.py) and the persistence layer
  db_ok,                \* TRUE iff the database accepts the commit
  log_coroutine,        \* the coroutine object of log_interaction
  response,             \* the HTTP response of the endpoint
  \* VocabularyAgent.get_words_by_topic (vocabulary_agent.py)
  topic,                \* the topic the word list is asked for
  \* StudyPlanAgent (studyplan.py), the one instance of main.py
  study_plan,           \* self.study_plan
  plan_input,           \* the user_input of the last call of run
  plan_answer,          \* what the backend answered that call, if asked
  plan_asked,           \* TRUE iff that call asked the backend
  plan_before,          \* self.study_plan when that call was made
  plan_returned,        \* the text that call returned
  plan_runs,            \* number of calls of run
  \* two calls of one agent's accumulating operation in flight
  streams,              \* per request: the chunks its response arrives in
  arrived,              \* per request: how many of them have arrived
  lists,                \* per list: the chunks appended to it
  raw,                  \* per request: <<raw_response>> once joined
  arrivals,             \* the requests in the order their chunks arrived
  \* two requests POST /speak/ in flight
  speak_pc,             \* per request: position of its call of run
  \* UserMemory (user_memory.py)
  memory_file,          \* the file user_<user_id>_memory.json
  memory,               \* per instance: self.memory
  constructed,          \* the instances that exist
  mem_last,             \* per key: the value of the last update_memory, or ""
  mem_writers,          \* per key: the instances that updated it
  mem_updates           \* number of calls of update_memory

dialogueVars == << whisper_model, initial_greeting, conversation_history, spc,
                   run_input, before, prompt_lines, asks, run_returned, runs >>
endpointVars == << db_ok, log_coroutine, response >>
wordsVars == << topic >>
\* the state of the other components
planVars == << study_plan, plan_input, plan_answer, plan_asked, plan_before,
               plan_returned, plan_runs >>
flightVars == << streams, arrived, lists, raw, arrivals >>
sharedVars == << speak_pc >>
memoryVars == << memory_file, memory, constructed, mem_last, mem_writers,
                 mem_updates >>
restVars == << wordsVars, planVars, flightVars, sharedVars, memoryVars >>

vars == << API_KEY, streaming, agent, pc, pending, requests, silent, outcome,
           received, yielded, response_parts, full_response, apc, parsed, result,
           dialogueVars, endpointVars, restVars >>

clientVars == << pc, pending, requests, silent, outcome, received, yielded >>
agentVars == << response_parts, full_response, apc, parsed, result >>
configVars == << API_KEY, streaming, agent, dialogueVars, endpointVars, restVars >>

Agents == {"GrammarAgent.correct_text", "VocabularyAgent.run"}

NoResult == [shape |-> "none", body |-> <<>>]
NoResponse == [status |-> 0, detail |-> <<>>]

\* no speaking agent is in use
NoDialogue ==
  /\ whisper_model = FALSE
  /\ initial_greeting = <<>>
  /\ conversation_history = <<>>
  /\ spc = "idle"
  /\ run_input = "none"
  /\ before = [history |-> <<>>, asks |-> 0, text |-> <<>>]
  /\ prompt_lines = <<>>
  /\ asks = 0
  /\ run_returned = <<>>
  /\ runs = 0

\* no request is at the endpoint
NoEndpoint ==
  /\ db_ok = TRUE
  /\ log_coroutine = "none"
  /\ response = NoResponse

\* no word list is asked for
NoWords == topic = ""

\* the study plan agent as constructed, not called yet
NoPlan ==
  /\ study_plan = <<>>
  /\ plan_input = <<>>
  /\ plan_answer = <<>>
  /\ plan_asked = FALSE
  /\ plan_before = <<>>
  /\ plan_returned = <<>>
  /\ plan_runs = 0

\* no pair of concurrent requests is observed
NoFlight ==
  /\ streams = <<>>
  /\ arrived = <<>>
  /\ lists = <<>>
  /\ raw = <<>>
  /\ arrivals = <<>>

\* no pair of requests is at the endpoint /speak/
NoShared == speak_pc = <<>>

\* no UserMemory is in use
NoMemory ==
  /\ memory_file = [exists |-> FALSE, text |-> <<>>]
  /\ memory = <<>>
  /\ constructed = {}
  /\ mem_last = <<>>
  /\ mem_writers = <<>>
  /\ mem_updates = 0

\* none of the other components is in use
NoOthers == NoWords /\ NoPlan /\ NoFlight /\ NoShared /\ NoMemory

Init ==
  /\ API_KEY \in BOOLEAN
  /\ streaming \in BOOLEAN
  /\ agent \in Agents
  /\ pc = "start"
  /\ pending = <<>>
  /\ requests = 0
  /\ silent = FALSE
  /\ outcome = "none"
  /\ received = <<>>
  /\ yielded = <<>>
  /\ response_parts = <<>>
  /\ full_response = <<>>
  /\ apc = "start"
  /\ parsed = <<>>
  /\ result = NoResult
  /\ NoDialogue
  /\ NoEndpoint
  /\ NoOthers

(***************************************************************************)
(* The completion client: BaseAgent._call_gemini_api (studyplan.py)        *)
(***************************************************************************)
\* `yield chunk` after which the generator is at position `next`
Yield(chunk, next) ==
  /\ pending' = <<chunk>>
  /\ yielded' = Append(yielded, chunk)
  /\ pc' = next

\* Faulty variant of CallStart: no `return` after the configuration error, the
\* request is sent all the same.
CallStart_NoReturn ==
  /\ pc = "start"
  /\ apc = "iterating"
  /\ IF ~API_KEY
       THEN /\ pending' = <<MsgNoKey>>
            /\ yielded' = Append(yielded, MsgNoKey)
            /\ outcome' = "config"
       ELSE UNCHANGED << pending, yielded, outcome >>
  /\ requests' = requests + 1
  /\ pc' = "awaiting"
  /\ UNCHANGED << silent, received >>
  /\ UNCHANGED << response_parts, full_response, apc, parsed, result >>
  /\ UNCHANGED configVars

\* The agent asks for the first element: the credential test, then the
\* request is sent (client.stream / client.post).
CallStart ==
  /\ pc = "start"
  /\ apc = "iterating"
  /\ IF ~API_KEY
       THEN /\ Yield(MsgNoKey, "done")
            /\ outcome' = "config"
            /\ UNCHANGED requests
       ELSE /\ requests' = requests + 1
            /\ pc' = "awaiting"
            /\ UNCHANGED << pending, yielded, outcome >>
  /\ UNCHANGED << silent, received >>
  /\ UNCHANGED << agentVars, configVars >>

\* The backend stops responding (it may do so at any point of the exchange).
BackendStalls ==
  /\ pc \in {"awaiting", "reading"}
  /\ ~silent
  /\ silent' = TRUE
  /\ UNCHANGED << pc, pending, requests, outcome, received, yielded >>
  /\ UNCHANGED << agentVars, configVars >>

\* Faulty variant of RequestFails: a failed request is sent again.
RequestFails_Retry ==
  /\ pc = "awaiting"
  /\ requests' = requests + 1
  /\ outcome' = IF silent THEN "timeout" ELSE "connect_error"
  /\ UNCHANGED << pc, pending, silent, received, yielded >>
  /\ UNCHANGED << response_parts, full_response, apc, parsed, result >>
  /\ UNCHANGED configVars

\* Faulty variant of RequestFails: the client has no timeout, only a connection
\* failure ends the wait.
RequestFails_NoTimeout ==
  /\ pc = "awaiting"
  /\ ~silent
  /\ outcome' = "connect_error"
  /\ pending' = <<MsgRequestError>>
  /\ yielded' = Append(yielded, MsgRequestError)
  /\ pc' = "done"
  /\ UNCHANGED << requests, silent, received >>
  /\ UNCHANGED << response_parts, full_response, apc, parsed, result >>
  /\ UNCHANGED configVars

\* httpx.RequestError before any response: connection failure, or the
\* timeout of httpx.AsyncClient(timeout=120.0) on a silent backend.
RequestFails ==
  /\ pc = "awaiting"
  /\ outcome' = IF silent THEN "timeout" ELSE "connect_error"
  /\ Yield(MsgRequestError, "done")
  /\ UNCHANGED << requests, silent, received >>
  /\ UNCHANGED << agentVars, configVars >>

\* The handler of httpx.HTTPStatusError.  e.response.json() reads
\* response.content; on a streamed response whose body was never read httpx
\* raises ResponseNotRead, which `except json.JSONDecodeError` does not catch,
\* so it leaves the generator.
StatusErrorHandler ==
  IF streaming
    THEN /\ pc' = "raised"
         /\ UNCHANGED << pending, yielded >>
    ELSE Yield(MsgHTTPError, "done")

\* The backend answers with a non-2xx status: res.raise_for_status() raises.
StatusError ==
  /\ pc = "awaiting"
  /\ ~silent
  /\ outcome' = "http_status"
  /\ StatusErrorHandler
  /\ UNCHANGED << requests, silent, received >>
  /\ UNCHANGED << agentVars, configVars >>

\* What the non-streaming branch yields for a 2xx response with this body.
NonStreamingChunk(body) ==
  LET data == JsonLoads(body) IN
  IF ~data.ok THEN MsgUnknown                               \* res.json() raises
  ELSE IF EnvelopeTest(data.value) = "raise" THEN MsgUnknown
  ELSE IF EnvelopeTest(data.value) = "false" THEN MsgSchema
  ELSE IF ~ExtractText(data.value).ok THEN MsgUnknown
  ELSE ExtractText(data.value).text

NonStreamingOutcome(body) ==
  LET data == JsonLoads(body) IN
  IF ~data.ok THEN "bad_body"
  ELSE IF EnvelopeTest(data.value) = "true" /\ ExtractText(data.value).ok THEN "ok"
  ELSE "bad_envelope"

\* Non-streaming: the 2xx response arrives whole.
ResponseArrives ==
  /\ pc = "awaiting"
  /\ ~streaming
  /\ ~silent
  /\ \E body \in Bodies :
       /\ received' = <<body>>
       /\ Yield(NonStreamingChunk(body), "done")
       /\ outcome' = NonStreamingOutcome(body)
  /\ UNCHANGED << requests, silent >>
  /\ UNCHANGED << agentVars, configVars >>

\* Faulty variant of StreamOpens: the streaming branch is taken whatever
\* self.streaming says.
StreamOpens_AnyMode ==
  /\ pc = "awaiting"
  /\ ~silent
  /\ pc' = "reading"
  /\ outcome' = "ok"
  /\ UNCHANGED << pending, requests, silent, received, yielded >>
  /\ UNCHANGED << response_parts, full_response, apc, parsed, result >>
  /\ UNCHANGED configVars

\* Streaming: the 2xx status line arrives, the line loop starts.
StreamOpens ==
  /\ pc = "awaiting"
  /\ streaming
  /\ ~silent
  /\ pc' = "reading"
  /\ outcome' = "ok"
  /\ UNCHANGED << pending, requests, silent, received, yielded >>
  /\ UNCHANGED << agentVars, configVars >>

\* Faulty variant of ReceiveLine: no try/except inside the loop, a line that does
\* not decode ends the stream in the outer `except Exception`.
ReceiveLine_BadLineAborts ==
  /\ pc = "reading"
  /\ pending = <<>>
  /\ ~silent
  /\ Len(received) < MaxLines
  /\ \E line \in StreamLines :
       /\ received' = Append(received, line)
       /\ IF DecodeLine(line).yield
            THEN Yield(DecodeLine(line).text, "reading")
            ELSE IF Strip(line) = <<>>
              THEN UNCHANGED << pc, pending, yielded >>
              ELSE Yield(MsgUnknown, "done")
  /\ UNCHANGED << requests, silent, outcome >>
  /\ UNCHANGED << response_parts, full_response, apc, parsed, result >>
  /\ UNCHANGED configVars

\* Streaming: one line arrives and goes through the loop body.
ReceiveLine ==
  /\ pc = "reading"
  /\ pending = <<>>
  /\ ~silent
  /\ Len(received) < MaxLines
  /\ \E line \in StreamLines :
       /\ received' = Append(received, line)
       /\ IF DecodeLine(line).yield
            THEN Yield(DecodeLine(line).text, "reading")
            ELSE UNCHANGED << pc, pending, yielded >>
  /\ UNCHANGED << requests, silent, outcome >>
  /\ UNCHANGED << agentVars, configVars >>

\* Streaming: the backend closes the connection, the loop and the generator end.
StreamEnds ==
  /\ pc = "reading"
  /\ pending = <<>>
  /\ ~silent
  /\ pc' = "done"
  /\ UNCHANGED << pending, requests, silent, outcome, received, yielded >>
  /\ UNCHANGED << agentVars, configVars >>

\* Streaming: httpx.RequestError while reading lines (connection lost, or the
\* read timeout on a silent backend).
StreamFails ==
  /\ pc = "reading"
  /\ pending = <<>>
  /\ outcome' = IF silent THEN "timeout" ELSE "cut"
  /\ Yield(MsgRequestError, "done")
  /\ UNCHANGED << requests, silent, received >>
  /\ UNCHANGED << agentVars, configVars >>

(***************************************************************************)
(* VocabularyAgent._clean_content                                          *)
(***************************************************************************)
\* first index >= i at which marker m starts in s, 0 if none
Find(s, m, i) ==
  LET hits == { j \in i..(Len(s) - Len(m) + 1) : SubSeq(s, j, j + Len(m) - 1) = m } IN
  IF hits = {} THEN 0 ELSE CHOOSE j \in hits : \A k \in hits : j <= k

\* re.sub(m (.*?) m, \1, s) from position i on: the leftmost opening marker
\* that has a closing marker on the same line loses both, and the scan goes
\* on after the closing marker; an opening marker with no closing marker on
\* its line is kept, and the scan goes on one character later.
RECURSIVE RemovePairsFrom(_, _, _)
RemovePairsFrom(s, m, i) ==
  LET open == Find(s, m, i)
      close == IF open = 0 THEN 0 ELSE Find(s, m, open + Len(m))
  IN
  IF open = 0 \/ close = 0 THEN SubSeq(s, i, Len(s))
  ELSE IF \E j \in (open + Len(m))..(close - 1) : s[j] = "\n"
    THEN SubSeq(s, i, open) \o RemovePairsFrom(s, m, open + 1)
  ELSE SubSeq(s, i, open - 1) \o SubSeq(s, open + Len(m), close - 1)
         \o RemovePairsFrom(s, m, close + Len(m))

RemovePairs(s, m) == Once(LAMBDA v : RemovePairsFrom(v, m, 1), s)

\* content.replace('\\n', '\n'): a backslash followed by n becomes a newline
UnescapeNewlines(s) ==
  Once(LAMBDA v :
         Join([ i \in 1..Len(v) |->
                IF v[i] = "\\" /\ i < Len(v) /\ v[i + 1] = "n" THEN <<"\n">>
                ELSE IF v[i] = "n" /\ i > 1 /\ v[i - 1] = "\\" THEN <<>>
                ELSE <<v[i]>> ]),
       s)

\* the newlines of the run of white space around position i
RunNewlines(s, i) ==
  { j \in 1..Len(s) :
      /\ s[j] = "\n"
      /\ \A k \in (IF j < i THEN j ELSE i)..(IF j < i THEN i ELSE j) : s[k] \in WS }

\* re.sub(r'\n\s*\n', '\n\n', s): in a run of white space that holds two or
\* more newlines, what lies from its first to its last newline becomes two
\* newlines
CollapseBlankLines(s) ==
  Once(LAMBDA v :
         Join([ i \in 1..Len(v) |->
                LET nl == IF v[i] \in WS THEN RunNewlines(v, i) ELSE {} IN
                IF \E a \in nl, b \in nl : a < b /\ a <= i /\ i <= b
                  THEN IF \A a \in nl : i <= a THEN <<"\n", "\n">> ELSE <<>>
                  ELSE <<v[i]>> ]),
       s)

\* Faulty variant of CleanContent: the result is not trimmed.
CleanContent_NoStrip(content) ==
  LET c1 == RemovePairs(content, <<"*", "*">>)
      c2 == RemovePairs(c1, <<"*">>)
      c3 == RemovePairs(c2, <<"_">>)
      c4 == RemovePairs(c3, <<Backtick>>)
  IN CollapseBlankLines(UnescapeNewlines(c4))

CleanContent(content) ==
  LET c1 == RemovePairs(content, <<"*", "*">>)
      c2 == RemovePairs(c1, <<"*">>)
      c3 == RemovePairs(c2, <<"_">>)
      c4 == RemovePairs(c3, <<Backtick>>)
  IN Strip(CollapseBlankLines(UnescapeNewlines(c4)))

(***************************************************************************)
(* The structured step of GrammarAgent.correct_text                        *)
(***************************************************************************)
FenceOpen == <<Backtick, Backtick, Backtick, "j", "s", "o", "n">>
FenceClose == <<Backtick, Backtick, Backtick>>

\* the two `if raw_response.strip()...` statements before json.loads
StripFences(raw_response) ==
  Once(LAMBDA unopened :
         IF EndsWith(Strip(unopened), FenceClose)
           THEN DropLast(Strip(unopened), Len(FenceClose))
           ELSE unopened,
       IF StartsWith(Strip(raw_response), FenceOpen)
         THEN DropFirst(Strip(raw_response), Len(FenceOpen))
         ELSE raw_response)

RequiredKeys == {"original_text", "corrected_text", "corrections"}

ErrMissingKeys == <<"Error: Could not parse corrections from LLM. Raw response: ">>
ErrInvalidJson == <<"Error: LLM did not return valid JSON. Raw response: ">>

\* `k in result` for the decoded value: a key of a dict, a substring of a
\* str, an element of a list; a TypeError on None, bool and numbers.
KeyIn(k, v) ==
  CASE v.t = "dict" -> IF k \in DOMAIN v.d THEN "true" ELSE "false"
    [] v.t = "str" -> IF Contains(v.s, <<k>>) THEN "true" ELSE "false"
    [] v.t = "list" ->
         IF \E i \in 1..Len(v.l) : v.l[i] = JStr(<<k>>) THEN "true" ELSE "false"
    [] OTHER -> "raise"

\* The value correct_text(explain_errors=True) returns for the accumulated
\* text; shape "raised" when the key test itself raises a TypeError, shape
\* "parsed" when json.loads' value is returned as it is (kind: its type).
CorrectTextResult(accumulated) ==
  Once(LAMBDA raw_response :
    Once(LAMBDA decoded :
           IF ~decoded.ok
             THEN [shape |-> "corrections", kind |-> "dict",
                   body |-> ErrInvalidJson \o raw_response]
           ELSE IF \E k \in RequiredKeys : KeyIn(k, decoded.value) = "raise"
             THEN [shape |-> "raised", kind |-> "TypeError", body |-> <<>>]
           ELSE IF \A k \in RequiredKeys : KeyIn(k, decoded.value) = "true"
             THEN [shape |-> "parsed", kind |-> decoded.value.t,
                   body |-> raw_response]
           ELSE [shape |-> "corrections", kind |-> "dict",
                 body |-> ErrMissingKeys \o raw_response],
         JsonLoads(raw_response)),
    StripFences(accumulated))

(***************************************************************************)
(* The agents                                                              *)
(***************************************************************************)
ErrEmptyInput == <<"Yeu cau khong duoc de trong">>
ErrNoResponse == <<"Khong nhan duoc phan hoi tu AI">>
ErrLesson == <<"Loi khi tao bai hoc tu vung">>

UserInputs == { <<>>, <<" ">>, <<"x">> }

\* The operation is called.  VocabularyAgent.run returns at once on an empty
\* request; otherwise the prompt is built and the iteration over ask begins.
AgentStart ==
  /\ apc = "start"
  /\ \E user_input \in UserInputs :
       IF agent = "VocabularyAgent.run" /\ Strip(user_input) = <<>>
         THEN /\ apc' = "returned"
              /\ result' = [shape |-> "error_details", body |-> ErrEmptyInput]
         ELSE /\ apc' = "iterating"
              /\ UNCHANGED result
  /\ UNCHANGED << response_parts, full_response, parsed >>
  /\ UNCHANGED << clientVars, configVars >>

\* Faulty variant of AppendPart: the chunk is put in front.
AppendPart_Prepend(parts, chunk) == <<chunk>> \o parts

\* response_parts.append(chunk)
AppendPart(parts, chunk) == Append(parts, chunk)

\* if chunk: full_response += chunk
AddChunk(text, chunk) == IF chunk # <<>> THEN text \o chunk ELSE text

\* The body of `async for chunk in self.ask(prompt)`.
Consume ==
  /\ apc = "iterating"
  /\ pending # <<>>
  /\ pending' = <<>>
  /\ IF agent = "GrammarAgent.correct_text"
       THEN /\ response_parts' = AppendPart(response_parts, pending[1])
            /\ UNCHANGED full_response
       ELSE /\ full_response' = AddChunk(full_response, pending[1])
            /\ UNCHANGED response_parts
  /\ UNCHANGED << apc, parsed, result >>
  /\ UNCHANGED << pc, requests, silent, outcome, received, yielded >>
  /\ UNCHANGED configVars

\* "".join(response_parts)
Accumulated == Join(response_parts)

\* the value VocabularyAgent.run returns once the iteration has ended
VocabularyResult(text) ==
  IF text = <<>>
    THEN [shape |-> "error_details", body |-> ErrNoResponse]
    ELSE [shape |-> "content_text", body |-> CleanContent(text)]

\* The generator is exhausted: the operation computes its result.
AgentFinish ==
  /\ agent \in Agents
  /\ apc = "iterating"
  /\ pc = "done"
  /\ pending = <<>>
  /\ IF agent = "GrammarAgent.correct_text"
       THEN \E returned \in {CorrectTextResult(Accumulated)} :
              /\ parsed' = <<StripFences(Accumulated)>>
              /\ result' = returned
              /\ apc' = IF returned.shape = "raised" THEN "raised" ELSE "returned"
       ELSE /\ result' = VocabularyResult(full_response)
            /\ apc' = "returned"
            /\ UNCHANGED parsed
  /\ UNCHANGED << response_parts, full_response >>
  /\ UNCHANGED << clientVars, configVars >>

\* An exception left the generator: correct_text has no handler around the
\* iteration, VocabularyAgent.run catches it in its outer `except Exception`.
AgentInterrupted ==
  /\ apc = "iterating"
  /\ pc = "raised"
  /\ IF agent = "GrammarAgent.correct_text"
       THEN /\ apc' = "raised"
            /\ UNCHANGED result
       ELSE /\ apc' = "returned"
            /\ result' = [shape |-> "error_details", body |-> ErrLesson]
  /\ UNCHANGED << response_parts, full_response, parsed >>
  /\ UNCHANGED << clientVars, configVars >>

Next ==
  \/ AgentStart
  \/ CallStart
  \/ BackendStalls
  \/ RequestFails
  \/ StatusError
  \/ ResponseArrives
  \/ StreamOpens
  \/ ReceiveLine
  \/ StreamEnds
  \/ StreamFails
  \/ Consume
  \/ AgentFinish
  \/ AgentInterrupted

Spec == Init /\ [][Next]_vars

\* The same machine with the fairness the runtime gives it: the timeout of
\* httpx.AsyncClient(timeout=120.0) fires on a silent backend, and the event
\* loop resumes a coroutine that can run.
TimeoutFires == silent /\ (RequestFails \/ StreamFails)

FairSpec ==
  /\ Spec
  /\ WF_vars(TimeoutFires)
  /\ WF_vars(AgentStart)
  /\ WF_vars(CallStart)
  /\ WF_vars(Consume)
  /\ WF_vars(AgentFinish)

(***************************************************************************)
(* The line decoder alone: one line drawn from its whole input space.      *)
(***************************************************************************)
InitDecode ==
  /\ API_KEY = TRUE
  /\ streaming = TRUE
  /\ agent \in Agents
  /\ pc = "reading"
  /\ pending = <<>>
  /\ requests = 1
  /\ silent = FALSE
  /\ outcome = "ok"
  /\ \E line \in AllLines : received = <<line>>
  /\ yielded = <<>>
  /\ response_parts = <<>>
  /\ full_response = <<>>
  /\ apc = "iterating"
  /\ parsed = <<>>
  /\ result = NoResult
  /\ NoDialogue
  /\ NoEndpoint
  /\ NoOthers

\* the loop body runs on the line
ApplyDecode ==
  /\ pc = "reading"
  /\ IF DecodeLine(received[1]).yield
       THEN Yield(DecodeLine(received[1]).text, "decoded")
       ELSE /\ pc' = "decoded"
            /\ UNCHANGED << pending, yielded >>
  /\ UNCHANGED << requests, silent, outcome, received >>
  /\ UNCHANGED << agentVars, configVars >>

NextDecode == ApplyDecode \/ Consume

SpecDecode == InitDecode /\ [][NextDecode]_vars

(***************************************************************************)
(* ReadingComprehensionAgent.generate_comprehension_questions              *)
(***************************************************************************)
ReadingOperation == "ReadingComprehensionAgent.generate_comprehension_questions"

ErrQuestionsStructure == <<"Cau truc JSON khong hop le cho cau hoi hieu bai.">>
ErrQuestionsDecode == <<"Khong the phan tich cau hoi hieu bai tu AI.">>
ErrQuestionsUnexpected == <<"Loi khong mong muon khi tao cau hoi hieu bai.">>

\* a local variable of a Python function: not bound until it is assigned
Unbound == [bound |-> FALSE, value |-> <<>>]
Bound(v) == [bound |-> TRUE, value |-> v]

\* The statements after the iteration.  The accumulated text is assigned to
\* response_str; the statement that follows reads raw_response, a local
\* variable that no statement has assigned yet: UnboundLocalError, outside the
\* try block.  What follows is the rest of the function as it is written.
QuestionsResult(response_str) ==
  LET raw_response == Unbound IN
  IF ~raw_response.bound
    THEN [shape |-> "raised", kind |-> "UnboundLocalError", body |-> <<>>]
  ELSE
    LET unclosed == IF EndsWith(Strip(raw_response.value), FenceClose)
                      THEN DropLast(Strip(raw_response.value), Len(FenceClose))
                      ELSE raw_response.value
        questions_data == JsonLoads(Strip(unclosed))
    IN
    IF ~questions_data.ok
      THEN [shape |-> "error_details", kind |-> "dict", body |-> ErrQuestionsDecode]
    ELSE IF KeyIn("questions", questions_data.value) = "raise"
      THEN [shape |-> "error_details", kind |-> "dict",
            body |-> ErrQuestionsUnexpected]
    ELSE IF questions_data.value.t = "dict"
            /\ "questions" \in DOMAIN questions_data.value.d
            /\ questions_data.value.d["questions"].t = "list"
      THEN [shape |-> "parsed", kind |-> "dict", body |-> Strip(unclosed)]
    ELSE IF questions_data.value.t = "dict"
      THEN [shape |-> "error_details", kind |-> "dict",
            body |-> ErrQuestionsStructure]
    ELSE [shape |-> "error_details", kind |-> "dict",
          body |-> ErrQuestionsUnexpected]

\* The generator is exhausted: generate_comprehension_questions goes on after
\* its loop.
ReadingFinish ==
  /\ agent = ReadingOperation
  /\ apc = "iterating"
  /\ pc = "done"
  /\ pending = <<>>
  /\ \E value \in {QuestionsResult(Accumulated)} :
       /\ result' = value
       /\ apc' = IF value.shape = "raised" THEN "raised" ELSE "returned"
  /\ UNCHANGED << response_parts, full_response, parsed >>
  /\ UNCHANGED << clientVars, configVars >>

(***************************************************************************)
(* The step after the iteration alone: the accumulated text is drawn from  *)
(* the texts a backend may have produced, and the operation finishes.      *)
(***************************************************************************)
\* Bound on the length of a response given to _clean_content.
MaxText == 4

\* JSON texts: the complete object, objects without the required keys, and
\* values that are not objects
JsonTexts ==
  { <<"{", "k", "}">>, <<"{", "}">>, <<"{candidates:[]}">>, <<"5">>, <<"[]">> }
    \cup { <<d>> : d \in ScalarDocs }

\* a fence opener without the "json" tag
FenceOpenBare == <<Backtick, Backtick, Backtick>>

\* text T inside a code fence, with white space around the fence
Fenced(T, opener, lead, trail) ==
  lead \o opener \o <<"\n">> \o T \o <<"\n">> \o FenceClose \o trail

FenceWrappings(T) ==
  { Fenced(T, opener, lead, trail) :
      opener \in {FenceOpen, FenceOpenBare},
      lead \in { <<>>, <<"\n">> },
      trail \in { <<>>, <<" ">>, <<"\n">> } }

\* texts that are no JSON
NonJsonTexts ==
  { <<>>, <<" ">>, <<"This is not valid JSON.">>, <<"{", "k">>,
    <<"{", "k", "}", "}">>, <<" ", "This is not valid JSON.", "\n">> }

\* every text given to a structured operation
StructuredTexts ==
  JsonTexts \cup NonJsonTexts
    \cup UNION { FenceWrappings(T) : T \in JsonTexts \cup NonJsonTexts }
    \cup { FenceOpen \o T : T \in JsonTexts \cup NonJsonTexts }
    \cup { T \o FenceClose : T \in JsonTexts \cup NonJsonTexts }
    \cup { <<" ">> \o T \o <<"\n">> : T \in JsonTexts }

\* the response of the spec's example: "**Present Perfect** is used..."
ExampleResponse == <<"*", "*", "Present Perfect", "*", "*", " ", "is used...">>

CleanAlphabet == {"*", "_", "P", " ", "\n", "\\", "n"}

\* every response given to VocabularyAgent.run
CleanTexts ==
  UNION { [1..n -> CleanAlphabet] : n \in 0..MaxText }
    \cup { ExampleResponse,
           <<Backtick, "P", Backtick>>, <<Backtick, "P", "\n", Backtick>>,
           <<"*", "*", "P", "_", "P", "*", "*", "_">> }

ParseOperations == Agents \cup {ReadingOperation}

InitParse ==
  /\ API_KEY = TRUE
  /\ streaming = FALSE
  /\ agent \in ParseOperations
  /\ pc = "done"
  /\ pending = <<>>
  /\ requests = 1
  /\ silent = FALSE
  /\ outcome = "ok"
  /\ received = <<>>
  /\ \E text \in StructuredTexts \cup CleanTexts :
       /\ yielded = <<text>>
       /\ IF agent = "VocabularyAgent.run"
            THEN text \in CleanTexts /\ full_response = text /\ response_parts = <<>>
            ELSE text \in StructuredTexts /\ full_response = <<>>
                 /\ response_parts = <<text>>
  /\ apc = "iterating"
  /\ parsed = <<>>
  /\ result = NoResult
  /\ NoDialogue
  /\ NoEndpoint
  /\ NoOthers

NextParse == AgentFinish \/ ReadingFinish

SpecParse == InitParse /\ [][NextParse]_vars

(***************************************************************************)
(* SpeakingPracticeAgent (speaking_agent.py): the dialogue transcript      *)
(***************************************************************************)
\* Bound on the plain exchanges (user turn, assistant turn) a session has
\* already had when it is observed, and on the calls of run observed.
MaxPriorExchanges == 10
MaxRuns == 2

\* MAX_HISTORY_TURNS of run
MAX_HISTORY_TURNS == 10

Greeting == <<"Hello! What would you like to talk about today?">>
FallbackGreeting == <<"Hello! How can I help you practice speaking today?">>
MsgSttUnavailable == <<"Loi: Dich vu nhan dang giong noi chua san sang.">>
SorryNotUnderstood ==
  <<"Sorry, I couldn't understand what you said. Could you please try again?">>
HowAssist == <<"How can I assist you?">>
SorryNotCaught == <<"I'm sorry, I didn't quite catch that. Could you say it again?">>
\* stands for an exception that leaves run
Raised == <<"<exception>">>

\* user_text_input; <<>> is None or the empty string, both false in Python
TextInputs == { <<>>, <<" ">>, <<"h">>, <<" ", "h">> }
\* what speech_to_text returns; <<>> is None or the empty string
SttTexts == { <<>>, <<"h">> }
\* what the chunks of ask add up to
AskTexts == { <<>>, <<" ">>, <<"r">>, <<"r", "\n">>, MsgRequestError }

Turn(role, content) == [role |-> role, content |-> content]

\* Faulty variant of AddTurn: only the recent window of the transcript is kept.
AddTurn_Windowed(history, role, content) ==
  LET all == Append(history, Turn(role, content)) IN
  SubSeq(all, IF Len(all) > MAX_HISTORY_TURNS * 2
                THEN Len(all) - MAX_HISTORY_TURNS * 2 + 1 ELSE 1, Len(all))

\* self.conversation_history.append({"role": role, "content": content})
AddTurn(history, role, content) == Append(history, Turn(role, content))

\* Faulty variant of InitialHistory: the greeting is not recorded.
InitialHistory_Empty(greeting) == <<>>

\* the transcript __init__ builds
InitialHistory(greeting) ==
  IF greeting # <<>> THEN AddTurn(<<>>, "model", greeting) ELSE <<>>

\* the transcript after n more plain exchanges: the user says "h", the
\* backend answers "r"
RECURSIVE AfterExchanges(_, _)
AfterExchanges(history, n) ==
  IF n = 0 THEN history
  ELSE AfterExchanges(AddTurn(AddTurn(history, "user", <<"h">>), "model", <<"r">>),
                      n - 1)

\* any(msg['role'] == 'user' for msg in self.conversation_history)
HasUserTurn(history) == \E i \in 1..Len(history) : history[i].role = "user"

\* Faulty variant of SttFallback: the user's turn is recorded as well.
SttFallback_WithUserTurn(history, greeting) ==
  LET phrase == IF ~HasUserTurn(history) /\ greeting # <<>>
                  THEN greeting ELSE SorryNotUnderstood
  IN [phrase |-> phrase,
      history |-> AddTurn(AddTurn(history, "user", <<>>), "model", phrase)]

\* speech_to_text gave no text: the phrase run answers with, and the
\* transcript with that phrase as the assistant's turn
SttFallback(history, greeting) ==
  LET phrase == IF ~HasUserTurn(history) /\ greeting # <<>>
                  THEN greeting ELSE SorryNotUnderstood
  IN [phrase |-> phrase, history |-> AddTurn(history, "model", phrase)]

\* self.conversation_history[-(MAX_HISTORY_TURNS * 2):]
RecentHistory(history) ==
  SubSeq(history,
         IF Len(history) > MAX_HISTORY_TURNS * 2
           THEN Len(history) - MAX_HISTORY_TURNS * 2 + 1 ELSE 1,
         Len(history))

\* the lines "<role label>: <content>" of a transcript
FormatLines(history) ==
  [ i \in 1..Len(history) |->
      [label |-> IF history[i].role = "user" THEN "User" ELSE "AI Assistant",
       content |-> history[i].content] ]

\* _format_conversation_history_for_prompt(): it reads
\* self.conversation_history, the whole transcript
FormatConversationHistory(history) == FormatLines(history)

\* Faulty variant of LastAIMessage: the content of the last turn, whoever
\* spoke it.
LastAIMessage_AnyRole(history) == history[Len(history)].content

\* the last message of the assistant, or the default question
LastAIMessage(history) ==
  IF history[Len(history)].role = "model"
    THEN history[Len(history)].content ELSE HowAssist

\* everything that is not the speaking agent's
outsideDialogue ==
  << clientVars, agentVars, API_KEY, streaming, agent, endpointVars, restVars >>

\* run is called and executes up to its first suspension inside ask, or to
\* its return when it does not call the backend.
RunCall ==
  /\ spc = "idle"
  /\ runs < MaxRuns
  /\ runs' = runs + 1
  /\ \E audio \in BOOLEAN, user_text_input \in TextInputs, stt \in SttTexts :
       /\ before' = [history |-> conversation_history, asks |-> asks,
                     text |-> IF audio /\ ~whisper_model THEN <<>>
                              ELSE IF audio THEN stt
                              ELSE Strip(user_text_input)]
       /\ IF audio /\ ~whisper_model
            THEN \* the speech recognition service is not ready
                 /\ run_input' = "audio_unavailable"
                 /\ run_returned' = MsgSttUnavailable
                 /\ UNCHANGED << conversation_history, spc, prompt_lines, asks >>
          ELSE IF audio /\ stt = <<>>
            THEN \* speech_to_text gave no text
                 /\ run_input' = "audio_unrecognized"
                 /\ conversation_history' =
                      SttFallback(conversation_history, initial_greeting).history
                 /\ run_returned' =
                      SttFallback(conversation_history, initial_greeting).phrase
                 /\ UNCHANGED << spc, prompt_lines, asks >>
          ELSE
            LET user_input_text ==
                  IF audio THEN stt
                  ELSE IF user_text_input # <<>> THEN Strip(user_text_input)
                  ELSE <<>>
                with_user == AddTurn(conversation_history, "user", user_input_text)
            IN
            /\ run_input' = IF audio THEN "audio"
                            ELSE IF user_text_input # <<>> THEN "text" ELSE "none"
            /\ IF user_input_text = <<>> /\ conversation_history = <<>>
                 THEN \* no input and no transcript: the greeting
                      /\ run_returned' = IF initial_greeting # <<>>
                                           THEN initial_greeting ELSE FallbackGreeting
                      /\ UNCHANGED << conversation_history, spc, prompt_lines, asks >>
               ELSE IF user_input_text = <<>>
                 THEN \* no input: the assistant's last message again
                      /\ run_returned' = LastAIMessage(conversation_history)
                      /\ UNCHANGED << conversation_history, spc, prompt_lines, asks >>
               ELSE IF /\ Len(with_user) = 1
                       /\ with_user[1].role = "model"
                       /\ initial_greeting # <<>>
                 THEN \* only the greeting in the transcript: no backend call
                      /\ conversation_history' =
                           AddTurn(with_user, "model", initial_greeting)
                      /\ run_returned' = initial_greeting
                      /\ UNCHANGED << spc, prompt_lines, asks >>
               ELSE \* the prompt is built and ask is entered
                      /\ conversation_history' = with_user
                      /\ prompt_lines' = FormatConversationHistory(with_user)
                      /\ asks' = asks + 1
                      /\ spc' = "asking"
                      /\ UNCHANGED run_returned
  /\ UNCHANGED << whisper_model, initial_greeting >>
  /\ UNCHANGED outsideDialogue

\* ask is exhausted: the answer is recorded and returned.
RunReply ==
  /\ spc = "asking"
  /\ \E text \in AskTexts :
       LET ai_response_text ==
             IF Strip(text) = <<>> THEN SorryNotCaught ELSE Strip(text)
       IN /\ conversation_history' =
               AddTurn(conversation_history, "model", ai_response_text)
          /\ run_returned' = ai_response_text
  /\ spc' = "idle"
  /\ UNCHANGED << whisper_model, initial_greeting, run_input, before,
                  prompt_lines, asks, runs >>
  /\ UNCHANGED outsideDialogue

\* An exception leaves ask (see StatusErrorHandler): run has no handler, the
\* user's turn stays in the transcript.
RunInterrupted ==
  /\ spc = "asking"
  /\ spc' = "idle"
  /\ run_returned' = Raised
  /\ UNCHANGED << whisper_model, initial_greeting, conversation_history,
                  run_input, before, prompt_lines, asks, runs >>
  /\ UNCHANGED outsideDialogue

\* A session of the speaking agent: constructed with or without a greeting
\* and with or without a Whisper model, and observed after some plain
\* exchanges.
InitSpeak ==
  /\ API_KEY = TRUE
  /\ streaming = TRUE
  /\ agent = "SpeakingPracticeAgent.run"
  /\ pc = "start"
  /\ pending = <<>>
  /\ requests = 0
  /\ silent = FALSE
  /\ outcome = "none"
  /\ received = <<>>
  /\ yielded = <<>>
  /\ response_parts = <<>>
  /\ full_response = <<>>
  /\ apc = "start"
  /\ parsed = <<>>
  /\ result = NoResult
  /\ whisper_model \in BOOLEAN
  /\ initial_greeting \in { <<>>, Greeting }
  /\ \E n \in 0..MaxPriorExchanges :
       conversation_history = AfterExchanges(InitialHistory(initial_greeting), n)
  /\ spc = "idle"
  /\ run_input = "none"
  /\ before = [history |-> <<>>, asks |-> 0, text |-> <<>>]
  /\ prompt_lines = <<>>
  /\ asks = 0
  /\ run_returned = <<>>
  /\ runs = 0
  /\ NoEndpoint
  /\ NoOthers

NextSpeak == RunCall \/ RunReply \/ RunInterrupted

SpecSpeak == InitSpeak /\ [][NextSpeak]_vars

(***************************************************************************)
(* The endpoint POST /grammar/correct (main.py) and log_interaction         *)
(* (database_manager.py)                                                   *)
(***************************************************************************)
ErrTextRequired == <<"Loi: 'text' la bat buoc cho lenh 'correct_text'.">>
ErrInternal == <<"Loi may chu noi bo khi sua van ban">>

\* GrammarAgent.run(command="correct_text") with no text: the error
\* dictionary, and correct_text is not called.
GrammarRunRejects ==
  /\ agent = "GrammarAgent.correct_text"
  /\ apc = "called"
  /\ apc' = "returned"
  /\ result' = [shape |-> "error", kind |-> "dict", body |-> ErrTextRequired]
  /\ UNCHANGED << response_parts, full_response, parsed >>
  /\ UNCHANGED << clientVars, configVars >>

\* The body of the coroutine log_interaction: the interaction is committed,
\* or the exception of the failed commit is logged and raised again.
LogInteraction(ok) == IF ok THEN "logged" ELSE "raised"

\* Faulty variant of CallLogInteraction: the coroutine is awaited.
CallLogInteraction_Awaited(ok) == LogInteraction(ok)

\* database_manager.log_interaction(...) as the endpoint writes it: the call
\* of a coroutine function without `await` makes a coroutine object that is
\* dropped; its body never runs.
CallLogInteraction(ok) == "never_awaited"

\* what the endpoint answers for the value correct_text returned
ResponseTo(value) ==
  IF value.kind = "dict" /\ value.shape = "error"
    THEN [status |-> 400, detail |-> value.body]
  ELSE IF value.kind = "dict" /\ value.shape = "corrections"
    THEN [status |-> 502, detail |-> value.body]
  ELSE [status |-> 200, detail |-> value.body]

\* The endpoint after `await grammar_agent.run(...)`: an exception of the
\* agent is answered with 500; otherwise the interaction is given to
\* log_interaction and the result is mapped to the response.
EndpointRespond ==
  /\ agent = "GrammarAgent.correct_text"
  /\ apc \in {"returned", "raised"}
  /\ response = NoResponse
  /\ IF apc = "raised"
       THEN /\ response' = [status |-> 500, detail |-> ErrInternal]
            /\ UNCHANGED log_coroutine
       ELSE /\ log_coroutine' = CallLogInteraction(db_ok)
            /\ response' = IF CallLogInteraction(db_ok) = "raised"
                             THEN [status |-> 500, detail |-> ErrInternal]
                             ELSE ResponseTo(result)
  /\ UNCHANGED db_ok
  /\ UNCHANGED << clientVars, agentVars, API_KEY, streaming, agent, dialogueVars,
                  restVars >>

\* One request at the endpoint: the database works or not, the request has
\* no text, or it has one and the backend's text has been accumulated.
InitEndpoint ==
  /\ API_KEY = TRUE
  /\ streaming = FALSE
  /\ agent = "GrammarAgent.correct_text"
  /\ pc = "done"
  /\ pending = <<>>
  /\ requests \in {0, 1}
  /\ silent = FALSE
  /\ outcome = "ok"
  /\ received = <<>>
  /\ full_response = <<>>
  /\ IF requests = 0
       THEN apc = "called" /\ yielded = <<>> /\ response_parts = <<>>
       ELSE /\ apc = "iterating"
            /\ \E text \in StructuredTexts :
                 yielded = <<text>> /\ response_parts = <<text>>
  /\ parsed = <<>>
  /\ result = NoResult
  /\ NoDialogue
  /\ db_ok \in BOOLEAN
  /\ log_coroutine = "none"
  /\ response = NoResponse
  /\ NoOthers

NextEndpoint == GrammarRunRejects \/ AgentFinish \/ EndpointRespond

SpecEndpoint == InitEndpoint /\ [][NextEndpoint]_vars

(***************************************************************************)
(* The endpoints POST /grammar/explain and POST /grammar/examples (main.py) *)
(* and the operations of GrammarAgent that return text                     *)
(***************************************************************************)
\* "Lỗi:", the mark of an error message of the agents
LoiPrefix == <<"Loi:">>
ErrRuleNameRequired ==
  LoiPrefix \o <<" 'rule_name' la bat buoc cho lenh 'explain_rule'.">>
ErrGrammarPointRequired ==
  LoiPrefix \o <<" 'grammar_point' la bat buoc cho lenh 'provide_examples'.">>
ErrInternalExplain == <<"Loi may chu noi bo khi giai thich ngu phap">>
ErrInternalExamples == <<"Loi may chu noi bo khi cung cap vi du">>

TextOperations == {"GrammarAgent.explain_rule", "GrammarAgent.provide_examples"}

\* what the backend may have produced for a request of text
MaxAnswer == 2
AnswerAlphabet == {"e", " ", "\n", "Loi:"}
AnswerTexts == UNION { [1..n -> AnswerAlphabet] : n \in 0..MaxAnswer }

\* str.split("\n")
RECURSIVE SplitLinesFrom(_, _, _)
SplitLinesFrom(s, i, line) ==
  IF i > Len(s) THEN <<line>>
  ELSE IF s[i] = "\n" THEN <<line>> \o SplitLinesFrom(s, i + 1, <<>>)
  ELSE SplitLinesFrom(s, i + 1, Append(line, s[i]))

SplitLines(s) == Once(LAMBDA v : SplitLinesFrom(v, 1, <<>>), s)

\* [ex.strip() for ex in lines if ex.strip()]
RECURSIVE StrippedNonEmpty(_)
StrippedNonEmpty(lines) ==
  IF lines = <<>> THEN <<>>
  ELSE IF Strip(Head(lines)) = <<>> THEN StrippedNonEmpty(Tail(lines))
  ELSE <<Strip(Head(lines))>> \o StrippedNonEmpty(Tail(lines))

\* GrammarAgent.run with command "explain_rule" or "provide_examples" and
\* the required argument missing or empty: the error string is returned and
\* the backend is not called.
GrammarRunRejectsText ==
  /\ agent \in TextOperations
  /\ apc = "called"
  /\ apc' = "returned"
  /\ result' = [shape |-> "text", kind |-> "str",
                body |-> IF agent = "GrammarAgent.explain_rule"
                           THEN ErrRuleNameRequired
                           ELSE ErrGrammarPointRequired]
  /\ UNCHANGED << response_parts, full_response, parsed >>
  /\ UNCHANGED << clientVars, configVars >>

\* explain_grammar_rule after its iteration: the chunks joined.
ExplainRuleFinish ==
  /\ agent = "GrammarAgent.explain_rule"
  /\ apc = "iterating"
  /\ pc = "done"
  /\ apc' = "returned"
  /\ result' = [shape |-> "text", kind |-> "str", body |-> Join(response_parts)]
  /\ UNCHANGED << response_parts, full_response, parsed >>
  /\ UNCHANGED << clientVars, configVars >>

\* provide_examples after its iteration: the stripped non-empty lines of the
\* joined chunks.
ProvideExamplesFinish ==
  /\ agent = "GrammarAgent.provide_examples"
  /\ apc = "iterating"
  /\ pc = "done"
  /\ apc' = "returned"
  /\ result' = [shape |-> "examples", kind |-> "list",
                body |-> StrippedNonEmpty(SplitLines(Join(response_parts)))]
  /\ UNCHANGED << response_parts, full_response, parsed >>
  /\ UNCHANGED << clientVars, configVars >>

\* isinstance(value, str) and value.startswith("Lỗi:")
IsErrorString(value) == value.kind = "str" /\ StartsWith(value.body, LoiPrefix)

\* `except Exception as e: raise HTTPException(status_code=500, ...)`, the
\* only handler of the two endpoints: it answers every exception raised in
\* the try block, the HTTPException the block raises itself included.
ExceptException(raised, detail) == [status |-> 500, detail |-> detail]

\* The try block after `await grammar_agent.run(...)`: the interaction is
\* given to log_interaction (see CallLogInteraction), then an error string
\* raises HTTPException(400) inside the try block and anything else is
\* answered 200.
TextResponse(value, internal) ==
  IF CallLogInteraction(TRUE) = "raised" THEN ExceptException("log", internal)
  ELSE IF IsErrorString(value)
    THEN ExceptException([status |-> 400, detail |-> value.body], internal)
  ELSE [status |-> 200, detail |-> value.body]

\* POST /grammar/explain
grammar_explain_rule ==
  /\ agent = "GrammarAgent.explain_rule"
  /\ apc = "returned"
  /\ response = NoResponse
  /\ log_coroutine' = CallLogInteraction(db_ok)
  /\ response' = TextResponse(result, ErrInternalExplain)
  /\ UNCHANGED db_ok
  /\ UNCHANGED << clientVars, agentVars, API_KEY, streaming, agent, dialogueVars,
                  restVars >>

\* POST /grammar/examples
grammar_provide_examples ==
  /\ agent = "GrammarAgent.provide_examples"
  /\ apc = "returned"
  /\ response = NoResponse
  /\ log_coroutine' = CallLogInteraction(db_ok)
  /\ response' = TextResponse(result, ErrInternalExamples)
  /\ UNCHANGED db_ok
  /\ UNCHANGED << clientVars, agentVars, API_KEY, streaming, agent, dialogueVars,
                  restVars >>

\* One request at one of the two endpoints: the required argument is missing
\* (no backend call), or the backend's text has been accumulated.
InitText ==
  /\ API_KEY = TRUE
  /\ streaming = FALSE
  /\ agent \in TextOperations
  /\ pc = "done"
  /\ pending = <<>>
  /\ requests \in {0, 1}
  /\ silent = FALSE
  /\ outcome = "ok"
  /\ received = <<>>
  /\ full_response = <<>>
  /\ IF requests = 0
       THEN apc = "called" /\ yielded = <<>> /\ response_parts = <<>>
       ELSE /\ apc = "iterating"
            /\ \E text \in AnswerTexts :
                 yielded = <<text>> /\ response_parts = <<text>>
  /\ parsed = <<>>
  /\ result = NoResult
  /\ NoDialogue
  /\ db_ok \in BOOLEAN
  /\ log_coroutine = "none"
  /\ response = NoResponse
  /\ NoOthers

NextText ==
  \/ GrammarRunRejectsText
  \/ ExplainRuleFinish
  \/ ProvideExamplesFinish
  \/ grammar_explain_rule
  \/ grammar_provide_examples

SpecText == InitText /\ [][NextText]_vars

(***************************************************************************)
(* VocabularyAgent.get_words_by_topic (vocabulary_agent.py)                *)
(*                                                                         *)
(* A JSON object with one key is the text <<"{", key, ":", value, "}">>,   *)
(* the key and the value one character each.                               *)
(***************************************************************************)
Topics == {"technology", "nature", "words"}

\* f"{topic}_words", the key the prompt asks the backend to use
TopicKey(t) ==
  CASE t = "technology" -> "technology_words"
    [] t = "nature" -> "nature_words"
    [] t = "words" -> "words_words"

\* the keys a backend may use
WordKeys == { TopicKey(t) : t \in Topics } \cup {"words", "wrong_key"}

\* the values of the key: a list of word objects, an empty list, a string,
\* null
WordValueNames == {"[w]", "[]", "'s'", "null"}
WordValue(name) ==
  CASE name = "[w]" ->
         JList(<<JDict([word |-> JStr(<<"algorithm">>),
                        meaning |-> JStr(<<"A set of rules">>)])>>)
    [] name = "[]" -> JList(<<>>)
    [] name = "'s'" -> JStr(<<"s">>)
    [] name = "null" -> JNull

\* the text of the object {key: value}
WordObject(key, name) == <<"{", key, ":", name, "}">>

\* JSON texts that are no objects: a list holding "words", the string
\* "words", a number
WordScalarNames == {"['words']", "'words'", "5"}
WordScalar(name) ==
  CASE name = "['words']" -> JList(<<JStr(<<"words">>)>>)
    [] name = "'words'" -> JStr(<<"words">>)
    [] name = "5" -> JNum(5)

\* json.loads on the texts of this operation
WordsLoads(s) ==
  Once(LAMBDA body :
         IF /\ Len(body) = 5
            /\ body[1] = "{" /\ body[3] = ":" /\ body[5] = "}"
            /\ body[2] \in WordKeys /\ body[4] \in WordValueNames
           THEN [ok |-> TRUE, value |-> JDict(body[2] :> WordValue(body[4]))]
         ELSE IF Len(body) = 1 /\ body[1] \in WordScalarNames
           THEN [ok |-> TRUE, value |-> WordScalar(body[1])]
         ELSE [ok |-> FALSE, value |-> JNull],
       Strip(s))

\* every text the backend may answer a word-list request with
WordTexts ==
  LET plain == { WordObject(k, v) : k \in WordKeys, v \in WordValueNames }
                 \cup { <<n>> : n \in WordScalarNames }
                 \cup { <<>>, <<"This is not valid JSON.">> }
  IN plain
       \cup { T \o <<"\n">> \o FenceClose : T \in plain }
       \cup { FenceOpen \o <<"\n">> \o T \o <<"\n">> \o FenceClose : T \in plain }

ErrWordsStructure == <<"Cau truc JSON khong hop le cho danh sach tu vung.">>
ErrWordsDecode == <<"Khong the phan tich danh sach tu vung tu AI.">>
ErrWordsUnexpected == <<"Loi khong mong muon khi lay danh sach tu vung.">>

\* The value get_words_by_topic returns for the joined chunks: only a
\* closing fence is removed before json.loads; the decoded value is tested
\* for the key "words".
WordsByTopicResult(response_str) ==
  Once(LAMBDA decoded :
         IF ~decoded.ok
           THEN [shape |-> "error", kind |-> "dict", body |-> ErrWordsDecode]
         ELSE IF KeyIn("words", decoded.value) = "raise"
           THEN [shape |-> "error", kind |-> "dict", body |-> ErrWordsUnexpected]
         ELSE IF KeyIn("words", decoded.value) = "false"
           THEN [shape |-> "error", kind |-> "dict", body |-> ErrWordsStructure]
         ELSE IF decoded.value.t # "dict"
           \* word_list_data["words"] on a str or a list: TypeError
           THEN [shape |-> "error", kind |-> "dict", body |-> ErrWordsUnexpected]
         ELSE IF decoded.value.d["words"].t # "list"
           THEN [shape |-> "error", kind |-> "dict", body |-> ErrWordsStructure]
         ELSE [shape |-> "words", kind |-> "dict", body |-> decoded.value],
       WordsLoads(
         Strip(IF EndsWith(Strip(response_str), FenceClose)
                 THEN DropLast(Strip(response_str), Len(FenceClose))
                 ELSE response_str)))

WordsOperation == "VocabularyAgent.get_words_by_topic"

\* The generator is exhausted: get_words_by_topic computes its result.
WordsFinish ==
  /\ agent = WordsOperation
  /\ apc = "iterating"
  /\ pc = "done"
  /\ apc' = "returned"
  /\ parsed' = <<Join(response_parts)>>
  /\ result' = WordsByTopicResult(Join(response_parts))
  /\ UNCHANGED << response_parts, full_response >>
  /\ UNCHANGED << clientVars, configVars >>

\* One request of a word list: the topic and the backend's text are drawn.
InitWords ==
  /\ API_KEY = TRUE
  /\ streaming = FALSE
  /\ agent = WordsOperation
  /\ pc = "done"
  /\ pending = <<>>
  /\ requests = 1
  /\ silent = FALSE
  /\ outcome = "ok"
  /\ received = <<>>
  /\ full_response = <<>>
  /\ \E text \in WordTexts : yielded = <<text>> /\ response_parts = <<text>>
  /\ apc = "iterating"
  /\ parsed = <<>>
  /\ result = NoResult
  /\ NoDialogue
  /\ NoEndpoint
  /\ topic \in Topics
  /\ NoPlan
  /\ NoFlight
  /\ NoShared
  /\ NoMemory

NextWords == WordsFinish

SpecWords == InitWords /\ [][NextWords]_vars

(***************************************************************************)
(* StudyPlanAgent (studyplan.py): the stored plan, generate_study_plan,    *)
(* populate_study_plan, update_progress and run.                           *)
(*                                                                         *)
(* A stored plan is a function from dates to the tasks of the day, a task  *)
(* a record of its task_id and its completed flag.  The profile fields     *)
(* (goal, time_frame, ...) only feed the prompt and are left out.  A user  *)
(* input is a sequence of words and phrases, a phrase of the command       *)
(* language one character.                                                 *)
(***************************************************************************)
\* datetime.today().strftime('%Y-%m-%d') and the day after, in sorted order
Today == "2026-01-01"
Tomorrow == "2026-01-02"
DateOrder == <<Today, Tomorrow>>

EmptyPlan == <<>>

PlanTask(task_id, completed) == [task_id |-> task_id, completed |-> completed]

\* the task objects of the backend's documents; `completed` may be absent
DocTask(task_id) == JDict([task_id |-> JStr(<<task_id>>)])
DocTaskDone(task_id) ==
  JDict([task_id |-> JStr(<<task_id>>), completed |-> JBool(TRUE)])
DocDay(date, tasks) == JDict([date |-> JStr(<<date>>), tasks |-> JList(tasks)])

DayA == DocDay(Today, <<DocTask("day_1_task_1"), DocTask("day_1_task_2")>>)
DayADone ==
  DocDay(Today, <<DocTaskDone("day_1_task_1"), DocTask("day_1_task_2")>>)
DayADup ==
  DocDay(Today, <<DocTask("day_1_task_1"), DocTask("day_1_task_1")>>)
DayB == DocDay(Tomorrow, <<DocTask("day_2_task_1")>>)
DayNoDate == JDict([tasks |-> JList(<<DocTask("day_1_task_1")>>)])

\* the values of the key "plan" in the backend's documents
PlanValueNames ==
  {"[]", "[A]", "[A,B]", "[B]", "[Adone,B]", "[Adup]", "[nodate,B]",
   "[A,5]", "[5]", "null", "'s'"}
PlanValue(name) ==
  CASE name = "[]" -> JList(<<>>)
    [] name = "[A]" -> JList(<<DayA>>)
    [] name = "[A,B]" -> JList(<<DayA, DayB>>)
    [] name = "[B]" -> JList(<<DayB>>)
    [] name = "[Adone,B]" -> JList(<<DayADone, DayB>>)
    [] name = "[Adup]" -> JList(<<DayADup>>)
    [] name = "[nodate,B]" -> JList(<<DayNoDate, DayB>>)
    [] name = "[A,5]" -> JList(<<DayA, JNum(5)>>)
    [] name = "[5]" -> JList(<<JNum(5)>>)
    [] name = "null" -> JNull
    [] name = "'s'" -> JStr(<<"s">>)

PlanKeys == {"plan", "other"}
PlanScalarNames == {"[]", "5", "null", "'plan'", "['plan']"}
PlanScalar(name) ==
  CASE name = "[]" -> JList(<<>>)
    [] name = "5" -> JNum(5)
    [] name = "null" -> JNull
    [] name = "'plan'" -> JStr(<<"plan">>)
    [] name = "['plan']" -> JList(<<JStr(<<"plan">>)>>)

\* json.loads on the texts of this operation: the object {key: value} is
\* the text <<"{", key, ":", value, "}">>
PlanLoads(s) ==
  Once(LAMBDA body :
         IF /\ Len(body) = 5
            /\ body[1] = "{" /\ body[3] = ":" /\ body[5] = "}"
            /\ body[2] \in PlanKeys /\ body[4] \in PlanValueNames
           THEN [ok |-> TRUE, value |-> JDict(body[2] :> PlanValue(body[4]))]
         ELSE IF body = <<"{", "}">>
           THEN [ok |-> TRUE, value |-> JDict(<<>>)]
         ELSE IF Len(body) = 1 /\ body[1] \in PlanScalarNames
           THEN [ok |-> TRUE, value |-> PlanScalar(body[1])]
         ELSE [ok |-> FALSE, value |-> JNull],
       Strip(s))

\* every text the backend may answer the plan prompt with
PlanTexts ==
  LET plain == { <<"{", "plan", ":", v, "}">> : v \in PlanValueNames }
                 \cup { <<"{", "other", ":", "[A]", "}">>, <<"{", "}">> }
                 \cup { <<n>> : n \in PlanScalarNames }
                 \cup { <<>>, <<"This is not valid JSON.">> }
  IN plain
       \cup { FenceOpen \o <<"\n">> \o T \o <<"\n">> \o FenceClose :
                T \in { <<"{", "plan", ":", "[A,B]", "}">>,
                        <<"{", "plan", ":", "[5]", "}">> } }

\* the two `if plan_json_str.strip()...` statements and the final strip
PlanStripFences(plan_json_str) ==
  Once(LAMBDA unopened :
         Strip(IF EndsWith(Strip(unopened), FenceClose)
                 THEN DropLast(Strip(unopened), Len(FenceClose))
                 ELSE unopened),
       IF StartsWith(Strip(plan_json_str), FenceOpen)
         THEN DropFirst(Strip(plan_json_str), Len(FenceOpen))
         ELSE plan_json_str)

\* the tasks of a stored day; a task without `completed` gets False
StoredTasks(tasks) ==
  [i \in 1..Len(tasks.l) |->
     PlanTask(tasks.l[i].d.task_id.s[1],
              IF "completed" \in DOMAIN tasks.l[i].d
                THEN tasks.l[i].d.completed.b ELSE FALSE)]

\* plan with the day `date` set to `tasks`
WithDay(plan, date, tasks) ==
  [d \in DOMAIN plan \cup {date} |-> IF d = date THEN tasks ELSE plan[d]]

\* The loop of populate_study_plan from day i on: a day that is no object
\* raises AttributeError at `.get` and leaves the days stored so far; a day
\* without date is skipped.
RECURSIVE PopulateDays(_, _, _)
PopulateDays(days, i, plan) ==
  IF i > Len(days) THEN [plan |-> plan, raised |-> FALSE]
  ELSE IF days[i].t # "dict" THEN [plan |-> plan, raised |-> TRUE]
  ELSE IF ~Truthy(Get(days[i], "date")) THEN PopulateDays(days, i + 1, plan)
  ELSE PopulateDays(days, i + 1,
         WithDay(plan, Get(days[i], "date").s[1],
                 IF "tasks" \in DOMAIN days[i].d
                   THEN StoredTasks(days[i].d.tasks) ELSE <<>>))

\* populate_study_plan(parsed_plan_data) on the stored plan: the plan it
\* leaves and whether it raised.
PopulateStudyPlan(plan, parsed_plan_data) ==
  IF ~Truthy(parsed_plan_data)
    THEN [plan |-> EmptyPlan, raised |-> TRUE]
  ELSE IF KeyIn("plan", parsed_plan_data) = "raise"
    THEN [plan |-> plan, raised |-> TRUE]
  ELSE IF KeyIn("plan", parsed_plan_data) = "false"
    THEN [plan |-> EmptyPlan, raised |-> TRUE]
  ELSE IF parsed_plan_data.t # "dict"
    \* parsed_plan_data["plan"] on a str or a list: TypeError
    THEN [plan |-> plan, raised |-> TRUE]
  ELSE IF parsed_plan_data.d["plan"].t # "list"
    THEN [plan |-> EmptyPlan, raised |-> TRUE]
  ELSE PopulateDays(parsed_plan_data.d["plan"].l, 1, EmptyPlan)

MsgPlanCreated == <<"Lo trinh hoc da duoc tao thanh cong va luu tru.">>
ErrPlanDecode == <<"Loi: Khong the phan tich lo trinh hoc tu AI.">>
ErrPlanProcess == <<"Loi khi xu ly lo trinh hoc">>
PlanErrors == {ErrPlanDecode, ErrPlanProcess}

\* generate_study_plan once the backend's text is joined
GenerateStudyPlan(plan, text) ==
  Once(LAMBDA decoded :
         IF ~decoded.ok THEN [plan |-> plan, returned |-> ErrPlanDecode]
         ELSE Once(LAMBDA populated :
                     [plan |-> populated.plan,
                      returned |-> IF populated.raised THEN ErrPlanProcess
                                   ELSE MsgPlanCreated],
                   PopulateStudyPlan(plan, decoded.value)),
       PlanLoads(PlanStripFences(text)))

\* the lines of the tasks of a day: status mark and task
RECURSIVE TaskLines(_, _)
TaskLines(tasks, i) ==
  IF i > Len(tasks) THEN <<>>
  ELSE << IF tasks[i].completed THEN "[x]" ELSE "[ ]", tasks[i].task_id >>
         \o TaskLines(tasks, i + 1)

MsgNoPlanYet == <<"Chua co lo trinh hoc nao duoc tao.">>
MsgNoPlanToday == <<"Khong co ke hoach hoc tap cho ngay hom nay trong lo trinh hien tai.">>
MsgNoTasksToday == "Khong co nhiem vu nao cho ngay hom nay."

\* generate_daily_study_plan_text
RECURSIVE DaysText(_, _)
DaysText(plan, k) ==
  IF k > Len(DateOrder) THEN <<>>
  ELSE IF DateOrder[k] \notin DOMAIN plan THEN DaysText(plan, k + 1)
  ELSE <<"Ngay", DateOrder[k]>> \o TaskLines(plan[DateOrder[k]], 1)
         \o DaysText(plan, k + 1)

GenerateDailyStudyPlanText(plan) ==
  IF plan = EmptyPlan THEN MsgNoPlanYet ELSE DaysText(plan, 1)

\* get_today_plan_text
GetTodayPlanText(plan) ==
  IF Today \notin DOMAIN plan THEN MsgNoPlanToday
  ELSE IF plan[Today] = <<>> THEN <<"Ke hoach hoc tap ngay", MsgNoTasksToday>>
  ELSE <<"Ke hoach hoc tap ngay">> \o TaskLines(plan[Today], 1)

\* generate_missing_today_plan: a default day of one task per focus skill
DefaultTasks ==
  << PlanTask("default_today_task_1", FALSE),
     PlanTask("default_today_task_2", FALSE),
     PlanTask("default_today_task_3", FALSE) >>

GenerateMissingTodayPlan(plan) ==
  IF Today \notin DOMAIN plan
    THEN [plan |-> WithDay(plan, Today, DefaultTasks),
          returned |-> <<"Da tao ke hoach hoc tap mac dinh cho ngay hom nay.">>
                         \o GetTodayPlanText(WithDay(plan, Today, DefaultTasks))]
    ELSE [plan |-> plan, returned |-> GetTodayPlanText(plan)]

MsgNothingToday == <<"Khong co ke hoach hoc tap hoac nhiem vu nao cho ngay hom nay de cap nhat.">>
MsgUpdated(task_id) == <<"Da cap nhat nhiem vu", task_id>>
MsgTaskNotFound(task_id) == <<"Khong tim thay nhiem vu voi ID", task_id>>

\* the tasks with the first one whose task_id is the given one set to
\* `completed`
MarkFirst(tasks, task_id, completed) ==
  LET hits == { i \in 1..Len(tasks) : tasks[i].task_id = task_id }
      first == CHOOSE i \in hits : \A j \in hits : i <= j
  IN [i \in 1..Len(tasks) |->
        IF i = first THEN PlanTask(task_id, completed) ELSE tasks[i]]

\* Faulty variant of UpdateProgress: the task is looked for on every day of
\* the plan.
UpdateProgress_AllDays(plan, task_id, completed) ==
  IF \E d \in DOMAIN plan : \E i \in 1..Len(plan[d]) : plan[d][i].task_id = task_id
    THEN [plan |-> [d \in DOMAIN plan |->
                      IF \E i \in 1..Len(plan[d]) : plan[d][i].task_id = task_id
                        THEN MarkFirst(plan[d], task_id, completed)
                        ELSE plan[d]],
          returned |-> MsgUpdated(task_id)]
    ELSE [plan |-> plan, returned |-> MsgTaskNotFound(task_id)]

\* update_progress(task_id_to_update, completed): only the tasks of today
\* are searched, and the first task with the id is updated.
UpdateProgress(plan, task_id, completed) ==
  IF Today \notin DOMAIN plan \/ plan[Today] = <<>>
    THEN [plan |-> plan, returned |-> MsgNothingToday]
  ELSE IF \E i \in 1..Len(plan[Today]) : plan[Today][i].task_id = task_id
    THEN [plan |-> WithDay(plan, Today, MarkFirst(plan[Today], task_id, completed)),
          returned |-> MsgUpdated(task_id)]
  ELSE [plan |-> plan, returned |-> MsgTaskNotFound(task_id)]

\* the phrases of the command language and the words they are made of
PhraseWords(token) ==
  CASE token = "tao lo trinh" -> <<"tao", "lo", "trinh">>
    [] token = "hoan thanh" -> <<"hoan", "thanh">>
    [] token = "xem ke hoach hom nay" -> <<"xem", "ke", "hoach", "hom", "nay">>
    [] token = "xem toan bo ke hoach" -> <<"xem", "toan", "bo", "ke", "hoach">>
    [] token = "generate hom nay" -> <<"generate", "hom", "nay">>
    [] OTHER -> <<token>>

\* user_input.split()
RECURSIVE SplitInput(_)
SplitInput(user_input) ==
  IF user_input = <<>> THEN <<>>
  ELSE PhraseWords(Head(user_input)) \o SplitInput(Tail(user_input))

\* `phrase in user_input_lower`
HasPhrase(user_input, phrase) ==
  \E i \in 1..Len(user_input) : user_input[i] = phrase

\* the task ids the commands name; the last one is in no document
CommandIds == {"day_1_task_1", "day_1_task_2", "day_2_task_1",
               "default_today_task_1", "no_task_9"}

\* "_" in word and ("day" in word or "task" in word)
LooksLikeTaskId(word) == word \in CommandIds

MsgNeedTaskId == <<"Vui long cung cap ID cua nhiem vu ban muon danh dau hoan thanh">>
MsgHelp == <<"Cac lenh hop le">>
MsgAskForPlan == <<"Vui long yeu cau 'tao lo trinh' hoac cung cap thong tin chi tiet hon.">>

PlanInputs ==
  { <<>>, <<"tao lo trinh">>, <<"hoan thanh">>, <<"xem ke hoach hom nay">>,
    <<"xem toan bo ke hoach">>, <<"generate hom nay">>, <<"hello">> }
    \cup { <<"hoan thanh", id>> : id \in CommandIds }

\* run(user_input) on the stored plan, `text` being what the backend
\* answers if it is asked: the plan it leaves, the text it returns and
\* whether it asked the backend.
RunResult(plan, user_input, text) ==
  IF user_input = <<>>
    THEN [plan |-> plan, asked |-> FALSE,
          returned |-> IF plan # EmptyPlan THEN GetTodayPlanText(plan)
                       ELSE MsgAskForPlan]
  ELSE IF HasPhrase(user_input, "tao lo trinh") \/ plan = EmptyPlan
    THEN [plan |-> GenerateStudyPlan(plan, text).plan, asked |-> TRUE,
          returned |-> GenerateStudyPlan(plan, text).returned]
  ELSE IF HasPhrase(user_input, "hoan thanh")
    THEN LET parts == SplitInput(user_input)
             candidate == IF Len(parts) > 1 /\ LooksLikeTaskId(parts[Len(parts)])
                            THEN <<parts[Len(parts)]>> ELSE <<>>
         IN IF candidate # <<>>
              THEN [plan |-> UpdateProgress(plan, candidate[1], TRUE).plan,
                    asked |-> FALSE,
                    returned |-> UpdateProgress(plan, candidate[1], TRUE).returned]
              ELSE [plan |-> plan, asked |-> FALSE, returned |-> MsgNeedTaskId]
  ELSE IF HasPhrase(user_input, "xem ke hoach hom nay")
    THEN [plan |-> plan, asked |-> FALSE, returned |-> GetTodayPlanText(plan)]
  ELSE IF HasPhrase(user_input, "xem toan bo ke hoach")
    THEN [plan |-> plan, asked |-> FALSE,
          returned |-> GenerateDailyStudyPlanText(plan)]
  ELSE IF HasPhrase(user_input, "generate hom nay")
    THEN [plan |-> GenerateMissingTodayPlan(plan).plan, asked |-> FALSE,
          returned |-> GenerateMissingTodayPlan(plan).returned]
  ELSE [plan |-> plan, asked |-> FALSE, returned |-> MsgHelp]

MaxPlanRuns == 3

\* POST /generate_study_plan on the one agent of the process:
\* `await study_plan_agent.run(user_input)`.
PlanRun ==
  /\ agent = "StudyPlanAgent.run"
  /\ plan_runs < MaxPlanRuns
  /\ \E user_input \in PlanInputs :
     \E text \in IF RunResult(study_plan, user_input, <<>>).asked
                   THEN PlanTexts ELSE { <<>> } :
       /\ plan_input' = user_input
       /\ plan_answer' = text
       /\ plan_asked' = RunResult(study_plan, user_input, text).asked
       /\ study_plan' = RunResult(study_plan, user_input, text).plan
       /\ plan_returned' = RunResult(study_plan, user_input, text).returned
  /\ plan_before' = study_plan
  /\ plan_runs' = plan_runs + 1
  /\ UNCHANGED << clientVars, agentVars, API_KEY, streaming, agent,
                  dialogueVars, endpointVars, wordsVars, flightVars,
                  sharedVars, memoryVars >>

\* The process after start-up: the agent of main.py holds no plan.
InitPlan ==
  /\ API_KEY = TRUE
  /\ streaming = FALSE
  /\ agent = "StudyPlanAgent.run"
  /\ pc = "start"
  /\ pending = <<>>
  /\ requests = 0
  /\ silent = FALSE
  /\ outcome = "none"
  /\ received = <<>>
  /\ yielded = <<>>
  /\ response_parts = <<>>
  /\ full_response = <<>>
  /\ apc = "start"
  /\ parsed = <<>>
  /\ result = NoResult
  /\ NoDialogue
  /\ NoEndpoint
  /\ NoWords
  /\ NoPlan
  /\ NoFlight
  /\ NoShared
  /\ NoMemory

NextPlan == PlanRun

SpecPlan == InitPlan /\ [][NextPlan]_vars

(***************************************************************************)
(* Two calls of an accumulating operation in flight on one agent:          *)
(* BaseAgent.ask (studyplan.py) iterated by GrammarAgent.correct_text      *)
(* (grammar_agent.py).  Each call of ask makes its own generator, fed by   *)
(* its own HTTP response.                                                  *)
(***************************************************************************)
Requests == {1, 2}

MaxChunks == 2
FlightChunks == { <<>>, <<"a">>, <<"b">> }
\* the chunk sequences a response may be delivered in
FlightStreams == UNION { [1..n -> FlightChunks] : n \in 0..MaxChunks }

\* Faulty variant of ListOf: the list is an attribute of the agent.
ListOf_Shared(r) == 1

\* `response_parts = []` is a local variable of the call: the list a call
\* appends to is its own.
ListOf(r) == r

\* The generator of call r yields its next chunk and the loop body of the
\* call appends it: `async for chunk in self.ask(prompt):
\* response_parts.append(chunk)`.
ChunkArrives(r) ==
  /\ raw[r] = <<>>
  /\ arrived[r] < Len(streams[r])
  /\ arrived' = [arrived EXCEPT ![r] = @ + 1]
  /\ lists' = [lists EXCEPT ![ListOf(r)] =
                 AppendPart(@, streams[r][arrived[r] + 1])]
  /\ arrivals' = Append(arrivals, r)
  /\ UNCHANGED << streams, raw >>

\* The generator of call r is exhausted:
\* `raw_response = "".join(response_parts)`.
JoinParts(r) ==
  /\ raw[r] = <<>>
  /\ arrived[r] = Len(streams[r])
  /\ raw' = [raw EXCEPT ![r] = <<Join(lists[ListOf(r)])>>]
  /\ UNCHANGED << streams, arrived, lists, arrivals >>

\* Two requests have been accepted; the backend delivers each response in
\* some chunks.
InitFlight ==
  /\ API_KEY = TRUE
  /\ streaming = TRUE
  /\ agent = "GrammarAgent.correct_text"
  /\ pc = "start"
  /\ pending = <<>>
  /\ requests = 0
  /\ silent = FALSE
  /\ outcome = "none"
  /\ received = <<>>
  /\ yielded = <<>>
  /\ response_parts = <<>>
  /\ full_response = <<>>
  /\ apc = "start"
  /\ parsed = <<>>
  /\ result = NoResult
  /\ NoDialogue
  /\ NoEndpoint
  /\ NoWords
  /\ NoPlan
  /\ streams \in [Requests -> FlightStreams]
  /\ arrived = [r \in Requests |-> 0]
  /\ lists = [r \in Requests |-> <<>>]
  /\ raw = [r \in Requests |-> <<>>]
  /\ arrivals = <<>>
  /\ NoShared
  /\ NoMemory

NextFlight ==
  \E r \in Requests :
    /\ ChunkArrives(r) \/ JoinParts(r)
    /\ UNCHANGED << clientVars, agentVars, API_KEY, streaming, agent,
                    dialogueVars, endpointVars, wordsVars, planVars,
                    sharedVars, memoryVars >>

SpecFlight == InitFlight /\ [][NextFlight]_vars

(***************************************************************************)
(* Two requests POST /speak/ in flight (main.py): both await               *)
(* speaking_agent.run on the one SpeakingPracticeAgent of the process.     *)
(***************************************************************************)
\* The request r reaches `await speaking_agent.run(path)` and run executes
\* up to its suspension inside ask, or to its return when the recording was
\* not recognised.
SpeakCall(r) ==
  /\ speak_pc[r] = "idle"
  /\ \E stt \in SttTexts :
       IF stt = <<>>
         THEN /\ conversation_history' =
                   SttFallback(conversation_history, initial_greeting).history
              /\ speak_pc' = [speak_pc EXCEPT ![r] = "done"]
              /\ UNCHANGED << prompt_lines, asks >>
         ELSE /\ conversation_history' = AddTurn(conversation_history, "user", stt)
              /\ prompt_lines' = FormatConversationHistory(
                                   AddTurn(conversation_history, "user", stt))
              /\ asks' = asks + 1
              /\ speak_pc' = [speak_pc EXCEPT ![r] = "asking"]

\* ask of request r is exhausted: the answer is appended.
SpeakReply(r) ==
  /\ speak_pc[r] = "asking"
  /\ \E text \in AskTexts :
       conversation_history' =
         AddTurn(conversation_history, "model",
                 IF Strip(text) = <<>> THEN SorryNotCaught ELSE Strip(text))
  /\ speak_pc' = [speak_pc EXCEPT ![r] = "done"]
  /\ UNCHANGED << prompt_lines, asks >>

\* an exception leaves ask of request r: the endpoint answers 500.
SpeakInterrupted(r) ==
  /\ speak_pc[r] = "asking"
  /\ speak_pc' = [speak_pc EXCEPT ![r] = "done"]
  /\ UNCHANGED << conversation_history, prompt_lines, asks >>

\* The process after start-up with the Whisper model loaded, and two
\* requests accepted by the server.
InitShared ==
  /\ API_KEY = TRUE
  /\ streaming = TRUE
  /\ agent = "SpeakingPracticeAgent.run"
  /\ pc = "start"
  /\ pending = <<>>
  /\ requests = 0
  /\ silent = FALSE
  /\ outcome = "none"
  /\ received = <<>>
  /\ yielded = <<>>
  /\ response_parts = <<>>
  /\ full_response = <<>>
  /\ apc = "start"
  /\ parsed = <<>>
  /\ result = NoResult
  /\ whisper_model = TRUE
  /\ initial_greeting \in { <<>>, Greeting }
  /\ conversation_history = InitialHistory(initial_greeting)
  /\ spc = "idle"
  /\ run_input = "none"
  /\ before = [history |-> <<>>, asks |-> 0, text |-> <<>>]
  /\ prompt_lines = <<>>
  /\ asks = 0
  /\ run_returned = <<>>
  /\ runs = 0
  /\ NoEndpoint
  /\ NoWords
  /\ NoPlan
  /\ NoFlight
  /\ speak_pc = [r \in Requests |-> "idle"]
  /\ NoMemory

NextShared ==
  \E r \in Requests :
    /\ SpeakCall(r) \/ SpeakReply(r) \/ SpeakInterrupted(r)
    /\ UNCHANGED << whisper_model, initial_greeting, spc, run_input, before,
                    run_returned, runs >>
    /\ UNCHANGED << clientVars, agentVars, API_KEY, streaming, agent,
                    endpointVars, wordsVars, planVars, flightVars, memoryVars >>

SpecShared == InitShared /\ [][NextShared]_vars

(***************************************************************************)
(* UserMemory (user_memory.py): two instances for one user_id, that is,    *)
(* for one memory file.  A dictionary is the sequence of its items in      *)
(* insertion order; the file holds the JSON text of a dictionary, a key or *)
(* a value one character.                                                  *)
(***************************************************************************)
Instances == {1, 2}
MemoryKeys == {"level", "goal"}
MemoryValues == {"a", "b"}
MaxUpdates == 3

NoFile == [exists |-> FALSE, text |-> <<>>]

Item(k, v) == [k |-> k, v |-> v]

\* json.dump(self.memory, file): {"k": "v", ...} in insertion order
RECURSIVE DumpItems(_, _)
DumpItems(memory_dict, i) ==
  IF i > Len(memory_dict) THEN <<>>
  ELSE (IF i > 1 THEN <<",">> ELSE <<>>)
         \o <<memory_dict[i].k, ":", memory_dict[i].v>>
         \o DumpItems(memory_dict, i + 1)

JsonDump(memory_dict) == <<"{">> \o DumpItems(memory_dict, 1) \o <<"}">>

\* json.load(file) on a text json.dump wrote: the items from position i on
RECURSIVE LoadItems(_, _)
LoadItems(text, i) ==
  IF text[i] = "}" THEN <<>>
  ELSE <<Item(text[i], text[i + 2])>>
         \o LoadItems(text, IF text[i + 3] = "," THEN i + 4 ELSE i + 3)

JsonLoad(text) == LoadItems(text, 2)

\* load_memory: the dictionary of the file, or {} when there is no file
LoadMemory(file) == IF file.exists THEN JsonLoad(file.text) ELSE <<>>

\* self.memory[key] = value
SetItem(memory_dict, key, value) ==
  IF \E i \in 1..Len(memory_dict) : memory_dict[i].k = key
    THEN [i \in 1..Len(memory_dict) |->
            IF memory_dict[i].k = key THEN Item(key, value) ELSE memory_dict[i]]
    ELSE Append(memory_dict, Item(key, value))

\* self.memory.get(key, "")
GetMemory(memory_dict, key) ==
  IF \E i \in 1..Len(memory_dict) : memory_dict[i].k = key
    THEN memory_dict[CHOOSE i \in 1..Len(memory_dict) : memory_dict[i].k = key].v
    ELSE ""

\* UserMemory(user_id): the instance reads the file once.
NewUserMemory(i) ==
  /\ i \notin constructed
  /\ constructed' = constructed \cup {i}
  /\ memory' = [memory EXCEPT ![i] = LoadMemory(memory_file)]
  /\ UNCHANGED << memory_file, mem_last, mem_writers, mem_updates >>

\* update_memory(key, value): the instance's dictionary is changed and
\* written over the file.
UpdateMemory(i, key, value) ==
  /\ i \in constructed
  /\ mem_updates < MaxUpdates
  /\ mem_updates' = mem_updates + 1
  /\ memory' = [memory EXCEPT ![i] = SetItem(@, key, value)]
  /\ memory_file' = [exists |-> TRUE,
                     text |-> JsonDump(SetItem(memory[i], key, value))]
  /\ mem_last' = [mem_last EXCEPT ![key] = value]
  /\ mem_writers' = [mem_writers EXCEPT ![key] = @ \cup {i}]
  /\ UNCHANGED constructed

\* A user with or without a memory file, and no instance yet.
InitMemory ==
  /\ API_KEY = TRUE
  /\ streaming = FALSE
  /\ agent = "UserMemory"
  /\ pc = "start"
  /\ pending = <<>>
  /\ requests = 0
  /\ silent = FALSE
  /\ outcome = "none"
  /\ received = <<>>
  /\ yielded = <<>>
  /\ response_parts = <<>>
  /\ full_response = <<>>
  /\ apc = "start"
  /\ parsed = <<>>
  /\ result = NoResult
  /\ NoDialogue
  /\ NoEndpoint
  /\ NoWords
  /\ NoPlan
  /\ NoFlight
  /\ NoShared
  /\ memory_file \in
       {NoFile} \cup { [exists |-> TRUE, text |-> JsonDump(<<Item(k, v)>>)] :
                         k \in MemoryKeys, v \in MemoryValues }
  /\ memory = [i \in Instances |-> <<>>]
  /\ constructed = {}
  /\ mem_last = [k \in MemoryKeys |-> ""]
  /\ mem_writers = [k \in MemoryKeys |-> {}]
  /\ mem_updates = 0

NextMemory ==
  \E i \in Instances :
    /\ \/ NewUserMemory(i)
       \/ \E key \in MemoryKeys, value \in MemoryValues :
            UpdateMemory(i, key, value)
    /\ UNCHANGED << clientVars, agentVars, API_KEY, streaming, agent,
                    dialogueVars, endpointVars, wordsVars, planVars,
                    flightVars, sharedVars >>

SpecMemory == InitMemory /\ [][NextMemory]_vars

(***************************************************************************)
(* Properties                                                              *)
(***************************************************************************)
\* the text an envelope document carries, read along
\* candidates[0].content.parts[0].text
DocText(d) == Doc(d).d.candidates.l[1].d.content.d.parts.l[1].d.text.s

\* the text the agent has accumulated
AgentText ==
  IF agent = "GrammarAgent.correct_text" THEN Accumulated ELSE full_response

\* C1: once every yielded chunk has been consumed, the text the agent holds
\* is the concatenation of all the chunks yielded so far, in the order they
\* were yielded; while a chunk is still pending it is the concatenation of
\* the chunks before it.
C1_AccumulateIsConcat ==
  /\ pending = <<>> => AgentText = Join(yielded)
  /\ pending # <<>> => AgentText \o pending[1] = Join(yielded)

\* C1 witness: a response arrived in three chunks, one empty, and the agent
\* holds their concatenation.
C1_Witness ==
  /\ apc = "returned"
  /\ yielded = << <<"{", "k">>, <<>>, <<"}">> >>
  /\ AgentText = <<"{", "k", "}">>

\* C2 (as claimed): no exception ever leaves the completion client.
C2_NoExceptionEscapes == pc # "raised"

FailureOutcomes ==
  {"config", "connect_error", "timeout", "cut", "http_status", "bad_body",
   "bad_envelope"}

\* C3 (as claimed): when the backend call failed, the text-only agent returns
\* an {error, details} result, never {content, type: "text"}.
C3_FailureGivesErrorResult ==
  (agent = "VocabularyAgent.run" /\ apc = "returned" /\ outcome \in FailureOutcomes)
    => result.shape = "error_details"

IsWs(s) == \A i \in 1..Len(s) : s[i] \in WS

\* what may stand before the document of a well-formed line: white space,
\* or the event-stream prefix and white space
WrapBefore(s) ==
  IsWs(s) \/ (StartsWith(s, DataPrefix) /\ IsWs(DropFirst(s, Len(DataPrefix))))

\* what may stand after it: white space with at most one comma in it
WrapAfter(s) ==
  \/ IsWs(s)
  \/ \E i \in 1..Len(s) :
       s[i] = "," /\ IsWs(SubSeq(s, 1, i - 1)) /\ IsWs(SubSeq(s, i + 1, Len(s)))

\* a well-formed line: one JSON document that has the
\* candidates/content/parts/text path, inside the transport's wrapping
WellFormedAt(line, i) ==
  /\ line[i] \in GoodDocs
  /\ WrapBefore(SubSeq(line, 1, i - 1))
  /\ WrapAfter(SubSeq(line, i + 1, Len(line)))

WellFormed(line) == \E i \in 1..Len(line) : WellFormedAt(line, i)

TextOf(line) == DocText(line[CHOOSE i \in 1..Len(line) : WellFormedAt(line, i)])

\* the texts of the well-formed lines of a sequence of lines, in order
RECURSIVE WellFormedTexts(_)
WellFormedTexts(lines) ==
  IF lines = <<>> THEN <<>>
  ELSE (IF WellFormed(Head(lines)) THEN <<TextOf(Head(lines))>> ELSE <<>>)
         \o WellFormedTexts(Tail(lines))

\* C4: in streaming mode, as long as the transport has not failed, the
\* fragments yielded so far are exactly the texts of the well-formed lines
\* received so far, in arrival order; every other line is skipped.  When the
\* transport fails, the one network error message follows them.
C4_YieldsWellFormedTexts ==
  /\ (streaming /\ outcome = "ok") => yielded = WellFormedTexts(received)
  /\ (streaming /\ outcome \in {"cut", "timeout"}) =>
       yielded = Append(WellFormedTexts(received), MsgRequestError)

\* C4 witness: the spec's example, an empty line, a line that is not JSON
\* and a well-formed line, followed by the end of the stream.
C4_Witness ==
  /\ streaming
  /\ pc = "done"
  /\ outcome = "ok"
  /\ received = << <<>>, <<"{bad">>, <<"Ja">> >>
  /\ yielded = << <<"a">> >>

\* C5: in non-streaming mode the client never yields more than one element,
\* and when it has finished it has yielded exactly one: the response text
\* when the response was usable, one of its error messages otherwise.
C5_NonStreamingOneElement ==
  ~streaming =>
    /\ Len(yielded) <= 1
    /\ pc = "done" =>
         /\ Len(yielded) = 1
         /\ outcome = "ok" => yielded[1] = DocText(received[1][1])
         /\ outcome # "ok" => yielded[1] \in ClientMessages

\* C5 witness: a non-streaming call that ended with the full text as its
\* one chunk.
C5_Witness ==
  /\ ~streaming
  /\ pc = "done"
  /\ outcome = "ok"
  /\ received = << <<"Ja">> >>
  /\ yielded = << <<"a">> >>
  /\ apc = "returned"

\* the four wrappings of a document that the transport uses
Wrappings(d) ==
  { <<d>>, DataPrefix \o <<d>>, <<d, ",">>, DataPrefix \o <<d, ",">> }

\* C6: a well-formed document decodes to its text in each of the wrappings
\* J, "data: J", "J," and "data: J,"; with two trailing commas only one is
\* removed and the line does not decode.
C6_WrappingInsensitive ==
  pc = "decoded" =>
    \A d \in GoodDocs :
      /\ received[1] \in Wrappings(d) => yielded = <<DocText(d)>>
      /\ received[1] \in { <<d, ",", ",">>, DataPrefix \o <<d, ",", ",">> }
           => yielded = <<>>

\* C6 witness: the line "data: J," has been decoded to the text of J.
C6_Witness ==
  /\ pc = "decoded"
  /\ received = << DataPrefix \o <<"Jopen", ",">> >>
  /\ yielded = << <<"{", "k">> >>

\* C7: without the credential no request is ever issued, and the finished
\* sequence is the configuration error alone.
C7_NoKeyNoRequest ==
  ~API_KEY =>
    /\ requests = 0
    /\ pc \in {"start", "done"}
    /\ pc = "done" => yielded = <<MsgNoKey>>
    /\ pc = "start" => yielded = <<>>

\* C7 witness: a call without the credential has ended and the agent has
\* returned.
C7_Witness == ~API_KEY /\ pc = "done" /\ pending = <<>> /\ apc = "returned"

\* C8: one invocation issues at most one request.
C8_AtMostOneRequest == requests <= 1

\* C8 witness: the one request failed and the call is over.
C8_Witness ==
  /\ requests = 1
  /\ outcome \in {"connect_error", "timeout", "http_status"}
  /\ pc \in {"done", "raised"}

\* C9: when the backend has gone silent during a call, the call ends with the
\* network error as its last element and the agent's operation returns.
C9_SilentBackendTerminates ==
  (silent /\ pc \in {"awaiting", "reading"})
    ~> (/\ pc = "done"
        /\ outcome = "timeout"
        /\ yielded # <<>>
        /\ yielded[Len(yielded)] = MsgRequestError
        /\ apc = "returned")

\* C9 witness: the backend went silent, the timeout fired and the agent
\* returned.
C9_Witness ==
  silent /\ outcome = "timeout" /\ pc = "done" /\ apc = "returned"

\* C10 (as claimed): when the stream is cut after chunks have arrived, the
\* structured operation attempts no JSON parse.
C10_NoParseOfPartial ==
  (/\ agent = "GrammarAgent.correct_text"
   /\ outcome \in {"cut", "timeout"}
   /\ Len(yielded) >= 2
   /\ apc \in {"returned", "raised"})
    => parsed = <<>>

\* C11: for every valid JSON text T, GrammarAgent.correct_text given T inside
\* a code fence (opener with or without the "json" tag, closer, white space
\* around) parses the same value and returns the same kind of result as when
\* it is given T itself.
C11_FenceRoundTrip ==
  \A T \in JsonTexts :
    (/\ agent = "GrammarAgent.correct_text"
     /\ apc \in {"returned", "raised"}
     /\ response_parts \in { <<w>> : w \in FenceWrappings(T) })
      => /\ parsed # <<>>
         /\ JsonLoads(parsed[1]) = JsonLoads(T)
         /\ result.shape = CorrectTextResult(T).shape

\* the keys a structured operation requires at the top level of the object
RequiredKeysOf(operation) ==
  IF operation = ReadingOperation THEN {"questions"} ELSE RequiredKeys

\* the text decodes to a JSON object that lacks a key the operation requires
LacksRequiredKey(text, operation) ==
  /\ JsonLoads(text).ok
  /\ JsonLoads(text).value.t = "dict"
  /\ ~(RequiredKeysOf(operation) \subseteq DOMAIN JsonLoads(text).value.d)

\* C12: whenever the accumulated text decodes to a JSON object that lacks a
\* required top-level key, the structured operation returns its
\* incomplete-schema error result; it neither returns the parsed object nor
\* raises.
C12_MissingKeyDetected ==
  (/\ agent \in {"GrammarAgent.correct_text", ReadingOperation}
   /\ apc \in {"returned", "raised"}
   /\ pc = "done"
   /\ LacksRequiredKey(Accumulated, agent))
    => /\ apc = "returned"
       /\ IF agent = ReadingOperation
            THEN result.shape = "error_details" /\ result.body = ErrQuestionsStructure
            ELSE result.shape = "corrections" /\ StartsWith(result.body, ErrMissingKeys)

\* C13: whenever the accumulated text is not decodable as JSON, the
\* structured operation returns its malformed-output error result, and the
\* raw text in it is the accumulated text itself.
C13_MalformedDetected ==
  (/\ agent \in {"GrammarAgent.correct_text", ReadingOperation}
   /\ apc \in {"returned", "raised"}
   /\ pc = "done"
   /\ ~JsonLoads(StripFences(Accumulated)).ok)
    => /\ apc = "returned"
       /\ IF agent = ReadingOperation
            THEN result.shape = "error_details" /\ result.body = ErrQuestionsDecode
            ELSE result.shape = "corrections"
                 /\ result.body = ErrInvalidJson \o Accumulated

\* C14: for every accumulated text, GrammarAgent.correct_text with
\* explanations returns a dictionary (the parsed object or the fallback with
\* original_text, corrected_text and corrections); it never raises.
C14_ParseNeverCrashes ==
  (/\ agent = "GrammarAgent.correct_text"
   /\ apc \in {"returned", "raised"}
   /\ pc = "done")
    => /\ apc = "returned"
       /\ result.shape \in {"parsed", "corrections"}
       /\ result.kind = "dict"

\* the positions of the line that holds position i
LineOf(s, i) == { j \in 1..Len(s) :
                   \A k \in (IF j < i THEN j ELSE i)..(IF j < i THEN i ELSE j) :
                     s[k] # "\n" }

\* no line of s holds two markers m: no pair of emphasis markers is left
NoMarkerPair(s, m) ==
  \A i \in 1..Len(s) :
    s[i] = m => \A j \in LineOf(s, i) : s[j] = m => j = i

\* no run of white space of s holds more than its two adjacent newlines
NoBlankRun(s) ==
  \A i \in 1..Len(s), k \in 1..Len(s) :
    (i + 1 < k /\ s[i] = "\n" /\ s[k] = "\n")
      => \E j \in (i + 1)..(k - 1) : s[j] \notin WS

\* the characters of s that are neither markers nor white space nor part
\* of an escaped newline, in order
RECURSIVE Words(_)
Words(s) ==
  IF s = <<>> THEN <<>>
  ELSE IF Head(s) \in {"*", "_", Backtick, "\\", "n"} \cup WS THEN Words(Tail(s))
  ELSE <<Head(s)>> \o Words(Tail(s))

\* C15: when the backend's response R is not empty, VocabularyAgent.run
\* returns {content, type: "text"} whose content is R cleaned: no pair of
\* emphasis markers is left on a line, no blank line beyond one empty line,
\* no white space at either end, the words kept in order; the response
\* "**Present Perfect** is used..." gives "Present Perfect is used...".
C15_CleanedContent ==
  (/\ agent = "VocabularyAgent.run"
   /\ apc = "returned"
   /\ pc = "done"
   /\ full_response # <<>>)
    => /\ result.shape = "content_text"
       /\ \A m \in {"*", "_", Backtick} : NoMarkerPair(result.body, m)
       /\ NoBlankRun(result.body)
       /\ result.body = Strip(result.body)
       /\ Words(result.body) = Words(full_response)
       /\ full_response = ExampleResponse
            => result.body = <<"Present Perfect", " ", "is used...">>

\* C15 witness: the example response was cleaned and returned.
C15_Witness ==
  /\ agent = "VocabularyAgent.run"
  /\ apc = "returned"
  /\ full_response = ExampleResponse
  /\ result = [shape |-> "content_text",
               body |-> <<"Present Perfect", " ", "is used...">>]

\* s is a prefix of t
IsPrefix(s, t) == Len(s) <= Len(t) /\ SubSeq(t, 1, Len(s)) = s

\* C16: the transcript is append-only: every step of the speaking agent
\* leaves the transcript it found as a prefix of the transcript it leaves.
C16_TranscriptAppendOnly ==
  [][IsPrefix(conversation_history, conversation_history')]_vars

\* C16 witness: two calls were made, the second with audio that was not
\* recognised, and the transcript has grown past the recency window.
C16_Witness ==
  /\ runs = 2
  /\ run_input = "audio_unrecognized"
  /\ Len(conversation_history) > MAX_HISTORY_TURNS * 2
  /\ Len(conversation_history) > Len(before.history)

\* C17: when a greeting is configured, the first turn of the transcript is
\* the assistant's greeting, in every reachable state.
C17_GreetingFirst ==
  initial_greeting # <<>>
    => /\ conversation_history # <<>>
       /\ conversation_history[1] = Turn("model", initial_greeting)

\* C17 witness: a greeting is configured and turns were added after it.
C17_Witness ==
  /\ initial_greeting = Greeting
  /\ runs = 2
  /\ spc = "idle"
  /\ Len(conversation_history) > Len(before.history)
  /\ Len(before.history) > MAX_HISTORY_TURNS * 2

\* C18: the transcript in the prompt of a backend call holds the most recent
\* turns only: never more lines than the recency window, and exactly the
\* latest turns in order.
C18_PromptWithinWindow ==
  spc = "asking"
    => /\ Len(prompt_lines) <= MAX_HISTORY_TURNS * 2
       /\ prompt_lines = FormatLines(RecentHistory(conversation_history))

\* C19 as stated: after a call whose audio speech_to_text could not turn
\* into text, run has returned the greeting if the transcript had no user
\* turn and the try-again phrase otherwise, has added that phrase as one
\* assistant turn and nothing else, and has not called the backend.
C19_SttFailureAsStated ==
  run_input = "audio_unrecognized"
    => LET phrase == IF ~HasUserTurn(before.history)
                       THEN initial_greeting ELSE SorryNotUnderstood
       IN /\ run_returned = phrase
          /\ conversation_history = Append(before.history, Turn("model", phrase))
          /\ asks = before.asks

\* C19 amended: the phrase is the greeting if the transcript had no user turn
\* and a greeting is configured, and the try-again phrase otherwise.
C19_SttFailureFallback ==
  run_input = "audio_unrecognized"
    => LET phrase == IF ~HasUserTurn(before.history) /\ initial_greeting # <<>>
                       THEN initial_greeting ELSE SorryNotUnderstood
       IN /\ run_returned = phrase
          /\ spc = "idle"
          /\ conversation_history = Append(before.history, Turn("model", phrase))
          /\ asks = before.asks

\* C19 witness: recognition failed after a backend call of the same session,
\* and the try-again phrase was returned.
C19_Witness ==
  /\ run_input = "audio_unrecognized"
  /\ run_returned = SorryNotUnderstood
  /\ asks = 1
  /\ runs = 2

NoInputRunDone == spc = "idle" /\ runs > 0 /\ run_input = "none"

HasModelTurn(history) == \E i \in 1..Len(history) : history[i].role = "model"

\* the content of the last assistant turn of a transcript that has one
LastModelContent(history) ==
  history[CHOOSE i \in 1..Len(history) :
            /\ history[i].role = "model"
            /\ \A j \in (i+1)..Len(history) : history[j].role # "model"].content

C26_InputAddsTwoTurns ==
  (spc = "idle" /\ runs > 0 /\ before.text # <<>>)
    => /\ asks = before.asks + 1
       /\ Len(conversation_history) = Len(before.history) + 2
       /\ SubSeq(conversation_history, 1, Len(before.history) + 1)
            = Append(before.history, Turn("user", before.text))
       /\ conversation_history[Len(conversation_history)].role = "model"
       /\ conversation_history[Len(conversation_history)].content # <<>>

\* C28: when GrammarAgent.run returned an input-validation error (a string
\* beginning with "Lỗi:"), the endpoints /grammar/explain and
\* /grammar/examples answer with status 400.
C28_ValidationErrorIs400 ==
  (/\ agent \in TextOperations
   /\ response # NoResponse
   /\ requests = 0
   /\ IsErrorString(result))
    => response.status = 400

\* C29: when the backend's text is the JSON object the prompt asks for, the
\* single key f"{topic}_words" holding a list of word objects,
\* get_words_by_topic returns that word list.
C29_AcceptsRequestedFormat ==
  (/\ agent = WordsOperation
   /\ apc = "returned"
   /\ parsed = <<WordObject(TopicKey(topic), "[w]")>>)
    => /\ result.shape = "words"
       /\ result.body = JDict(TopicKey(topic) :> WordValue("[w]"))

\* the plans a history of calls may have left in the agent
StoredPlans ==
  { PopulateStudyPlan(EmptyPlan, JDict("plan" :> PlanValue(n))).plan :
      n \in PlanValueNames }

\* C21: the result of a call of the study-plan agent's run is determined by
\* the call's input and the backend's response alone: whatever plan earlier
\* calls have left in the agent, a call with this input and this exchange
\* with the backend returns this text.
C21_ResultDeterminedByCall ==
  plan_runs > 0
    => \A p \in StoredPlans :
         RunResult(p, plan_input, plan_answer).asked = plan_asked
           => RunResult(p, plan_input, plan_answer).returned = plan_returned

\* the command 'hoàn thành <task_id>' reached update_progress
MarkCommandDone ==
  /\ plan_runs > 0
  /\ ~plan_asked
  /\ Len(plan_input) = 2
  /\ plan_input[1] = "hoan thanh"

SameTasks(plan, other) ==
  /\ DOMAIN plan = DOMAIN other
  /\ \A d \in DOMAIN plan :
       /\ Len(plan[d]) = Len(other[d])
       /\ \A i \in 1..Len(plan[d]) : plan[d][i].task_id = other[d][i].task_id

C27_ErrorKeepsPlan ==
  (plan_runs > 0 /\ plan_asked /\ plan_returned \in PlanErrors)
    => study_plan = plan_before

\* C22: with two requests in flight on one agent and their chunks arriving
\* in any interleaving, the list of each request holds the chunks of that
\* request that have arrived, in arrival order, and its accumulated response
\* is the concatenation of its own chunks.
C22_OwnChunksInOrder ==
  \A r \in Requests :
    /\ lists[r] = SubSeq(streams[r], 1, arrived[r])
    /\ raw[r] # <<>> => raw[r] = <<Join(streams[r])>>

\* C22 witness: the chunks of the two requests arrived alternately, the two
\* responses differ, and both were accumulated.
C22_Witness ==
  /\ arrivals = <<1, 2, 1, 2>>
  /\ raw[1] = << <<"a", "b">> >>
  /\ raw[2] = << <<"b", "a">> >>

\* C23: while a call of run on the shared transcript is suspended between
\* the append of its user's turn and the append of its assistant's turn, no
\* other call appends to the transcript.
C23_NoAppendWhileSuspended ==
  [][\A r \in Requests :
       (speak_pc[r] = "asking" /\ speak_pc'[r] = "asking")
         => conversation_history' = conversation_history]_vars

\* C30: when the instances of UserMemory for one user have updated
\* different keys, a freshly loaded UserMemory returns, for every updated
\* key, the value of its last update.
C30_NoLostUpdate ==
  (\A k \in MemoryKeys : Cardinality(mem_writers[k]) <= 1)
    => \A k \in MemoryKeys :
         mem_writers[k] # {}
           => GetMemory(LoadMemory(memory_file), k) = mem_last[k]

====
